---- MODULE Spec2Model ----
(***************************************************************************)
(* The offline mutation queue of the BoxFinder mobile client               *)
(* (mobile/src/services/syncQueue.ts) together with the connectivity       *)
(* re-check it performs (mobile/src/services/networkStatus.ts), and, on    *)
(* top of it, the Entity Cache (OfflineStorage) and the calls of the       *)
(* ApiService that fall back to cache and queue.                           *)
(*                                                                         *)
(* Spec is the queue alone, its methods interleaved at their awaits.       *)
(* ApiSpec is the ApiService, one call at a time, over queue and cache.    *)
(* CacheSpec is OfflineStorage alone, one call at a time, with a store     *)
(* whose requests may fail.                                                *)
(* MonitorSpec is the NetworkStatusManager with its listeners, next to the *)
(* re-check of a drain pass.                                               *)
(* HomeSpec is the auto-sync of HomeScreen over monitor, store and queue;  *)
(* HomeFair adds that promises settle and effects run.                     *)
(* SessionSpec is ApiService.logout after calls that fill cache and queue. *)
(* ListenSpec is the queue with its listeners.                             *)
(* ReplaySpec is the executor on operations of every kind of entity.       *)
(* NestSpec is createContainer under a parent picked from the cache, and   *)
(* the drain that replays it.                                              *)
(* SignOutSpec is logout next to a drain pass that is in flight.           *)
(* BannerSpec is the store's pending-sync count next to the queue.         *)
(*                                                                         *)
(* JavaScript runs the code on one thread, but every `await` is a          *)
(* suspension point.  Each action below is one run-to-completion segment   *)
(* of a handler: from its invocation (or from the resumption of an await)  *)
(* up to the next await.  A storage request (AsyncStorage.getItem /        *)
(* setItem / removeItem) takes effect when it is issued - the native       *)
(* module serves requests in issue order - and its caller resumes in a     *)
(* later segment.  Outside CacheSpec and the clearCache of logout the      *)
(* store is assumed not to fail; the listeners of the queue are followed   *)
(* in ListenSpec only.                                                     *)
(***************************************************************************)
EXTENDS Integers, Sequences, FiniteSets, TLC

(* ------------------------------ bounds -------------------------------- *)
MaxCalls == 4      \* invocations of the queue's methods per behaviour
MaxClock == 1      \* largest value of Date.now()
MaxEvents == 5     \* calls of the monitor's methods and platform reports
MaxWrites == 1     \* writes the user makes from HomeScreen per behaviour
MaxNotices == 3    \* reads of the pending count waiting to be delivered
MaxPasses == 2     \* processQueue invocations next to the monitor's listeners

(* ------------------------- program constants -------------------------- *)
MaxRetries == 3    \* syncQueue.ts:156  `operation.retries >= 3`

SyncOperationType == {"CREATE", "UPDATE", "DELETE"}
SyncEntityType == {"container", "item"}

\* Entity identifiers.  The one identifier occurs under both entity kinds, so
\* that an entity is a genuine (entity, entityId) pair.
EntityIds == {"x"}

(* ------------------------------ payloads ------------------------------ *)
\* `data: any`.  The callers pass either null (DELETE) or a flat object of
\* optional fields (CreateContainerDto, Partial<CreateContainerDto>,
\* UpdateItemDto).  An object is a function from field names to values,
\* Absent marking a field the object does not have.
Keys == {"name", "color", "parentId"}
Absent == "absent"

NoFields == [k \in Keys |-> Absent]
Null == [isNull |-> TRUE, kv |-> NoFields]
Obj(kv) == [isNull |-> FALSE, kv |-> kv]

Rename(v) == Obj([NoFields EXCEPT !["name"] = v])
Recolor(v) == Obj([NoFields EXCEPT !["color"] = v])

\* The kinds of addToQueue invocation the application makes (ApiService:
\* createContainer, updateContainer, deleteContainer, updateItem, deleteItem),
\* as <<type, entity, data>>.  DELETE passes null; the objects passed have one
\* field each, so that a payload with two fields can only come from a merge.
\* addToQueue itself accepts any of them for any entity identifier, whatever
\* is queued for it.
Requests ==
    {<<"CREATE", "container", Rename("A")>>,
     <<"UPDATE", "container", Rename("B")>>,
     <<"UPDATE", "container", Recolor("red")>>,
     <<"DELETE", "container", Null>>,
     <<"UPDATE", "item", Rename("B")>>,
     <<"DELETE", "item", Null>>}

\* `...d` inside an object literal: the own fields of d; null spreads to none.
Spread(d) == d.kv

MergeWrong(a, b) ==
    Obj([k \in Keys |-> IF Spread(a)[k] # Absent THEN Spread(a)[k] ELSE Spread(b)[k]])

\* `{...a, ...b}`: shallow merge, the fields of b win.
Merge(a, b) ==
    Obj([k \in Keys |-> IF Spread(b)[k] # Absent THEN Spread(b)[k] ELSE Spread(a)[k]])

(* ------------------------------ operations ---------------------------- *)
\* interface SyncOperation.  `id` is generateId(): Date.now() plus nine random
\* base-36 digits, modelled as a fresh serial number.  `timestamp` is the
\* ISO-8601 rendering of Date.now(); it is only ever read back through
\* new Date(timestamp).getTime(), which returns the same millisecond count,
\* so it is kept as that count.
SyncOperation(id, type, entity, entityId, data, timestamp) ==
    [id |-> id, type |-> type, entity |-> entity, entityId |-> entityId,
     data |-> data, timestamp |-> timestamp, retries |-> 0]

NoOp == SyncOperation(0, "CREATE", "container", "x", Null, 0)

Range(s) == {s[i] : i \in 1..Len(s)}

\* The least element of a non-empty set of indices, 0 for the empty set:
\* what Array.prototype.findIndex returns, 1-based, 0 standing for -1.
First(indices) ==
    IF indices = {} THEN 0
    ELSE CHOOSE i \in indices : \A j \in indices : i <= j

\* queue.splice(i, 1)
Splice(queue, i) == SubSeq(queue, 1, i - 1) \o SubSeq(queue, i + 1, Len(queue))

\* syncQueue.ts:51  `op.entity === entity && op.entityId === entityId`
SameEntity(op, entity, entityId) == op.entity = entity /\ op.entityId = entityId

\* syncQueue.ts:50-52  queue.findIndex(op => same entity and entityId)
IndexOfEntity(queue, entity, entityId) ==
    First({i \in 1..Len(queue) : SameEntity(queue[i], entity, entityId)})

\* syncQueue.ts:163-165  currentQueue.findIndex(op => op.id === operation.id)
IndexOfId(queue, operationId) ==
    First({i \in 1..Len(queue) : queue[i].id = operationId})

OnDeleteAlwaysReplaces(queue, existingIndex, operation) ==
    [queue EXCEPT ![existingIndex] = operation]

OnDeleteKeepsPayload(queue, existingIndex, operation) ==
    IF queue[existingIndex].type = "CREATE"
    THEN Splice(queue, existingIndex)
    ELSE [queue EXCEPT ![existingIndex].type = "DELETE"]

\* syncQueue.ts:58-66: an incoming DELETE meets the operation at existingIndex.
OnDelete(queue, existingIndex, operation) ==
    IF queue[existingIndex].type = "CREATE"
    THEN Splice(queue, existingIndex)
    ELSE [queue EXCEPT ![existingIndex] = operation]

OnUpdateKeepsTimestamp(queue, existingIndex, operation) ==
    [queue EXCEPT ![existingIndex].data =
                      Merge(queue[existingIndex].data, operation.data)]

\* syncQueue.ts:67-76: an incoming UPDATE meets the operation at existingIndex.
OnUpdate(queue, existingIndex, operation) ==
    IF queue[existingIndex].type = "CREATE"
    THEN [queue EXCEPT ![existingIndex].data =
                           Merge(queue[existingIndex].data, operation.data)]
    ELSE [queue EXCEPT ![existingIndex].data =
                           Merge(queue[existingIndex].data, operation.data),
                       ![existingIndex].timestamp = operation.timestamp]

CoalesceAlwaysPush(queue, operation) == Append(queue, operation)

\* syncQueue.ts:50-79: the queue addToQueue saves, given the queue it loaded
\* and the operation it built.
Coalesce(queue, operation) ==
    LET existingIndex == IndexOfEntity(queue, operation.entity, operation.entityId)
    IN  IF existingIndex >= 1
        THEN IF operation.type = "DELETE"
             THEN OnDelete(queue, existingIndex, operation)
             ELSE IF operation.type = "UPDATE"
                  THEN OnUpdate(queue, existingIndex, operation)
                  ELSE queue
        ELSE Append(queue, operation)

\* syncQueue.ts:110  removeFromQueue's `queue.filter(op => op.id !== operationId)`
WithoutId(queue, operationId) ==
    LET Keep(op) == op.id # operationId IN SelectSeq(queue, Keep)

\* One step of an insertion sort: op goes behind every element that does not
\* come after it, which keeps equal timestamps in their stored order.
RECURSIVE Insert(_, _)
Insert(sorted, op) ==
    IF sorted = <<>> THEN <<op>>
    ELSE IF Head(sorted).timestamp - op.timestamp > 0
         THEN <<op>> \o sorted
         ELSE <<Head(sorted)>> \o Insert(Tail(sorted), op)

RECURSIVE SortFrom(_, _)
SortFrom(sorted, rest) ==
    IF rest = <<>> THEN sorted ELSE SortFrom(Insert(sorted, Head(rest)), Tail(rest))

SortByTimestampWrong(queue) == queue

\* syncQueue.ts:142-145  queue.sort((a, b) => time(a) - time(b)); the sort of
\* the JavaScript engine is stable.
SortByTimestamp(queue) == SortFrom(<<>>, queue)

\* NetInfoState.isConnected is boolean | null.
NetInfoStates == {"true", "false", "null"}

\* networkStatus.ts:54  `state.isConnected ?? false`
OrFalse(isConnectedState) == isConnectedState = "true"

RetriesExhaustedLate(retries) == retries > MaxRetries

\* syncQueue.ts:156  `operation.retries >= 3`
RetriesExhausted(retries) == retries >= MaxRetries

\* What the caller-supplied executor does with an operation: resolve to true,
\* resolve to false, or reject.
Outcomes == {"true", "false", "throw"}

\* Which case of syncQueue.ts:54-79 applies: the type of the incoming
\* operation and the type of the operation found for its entity, if any.
Case(queue, operation) ==
    LET existingIndex == IndexOfEntity(queue, operation.entity, operation.entityId)
    IN  [incoming |-> operation.type,
         existing |-> IF existingIndex >= 1 THEN queue[existingIndex].type ELSE "none"]

(* ------------------------------ identifiers --------------------------- *)
\* An identifier is a string; only its prefix and its being distinct from
\* the others matter, so it is kept as a prefix and a serial number.
Id(prefix, serial) == [prefix |-> prefix, serial |-> serial]

NoId == Id("", 0)

\* part_000:39  `temp-${Date.now()}-${Math.random()...}`: a fresh identifier
\* with the temporary prefix.
generateTempId(serial) == Id("temp-", serial)

\* An identifier the server assigns to an entity it creates.
ServerId(serial) == Id("id-", serial)

\* part_000:283  id.startsWith('temp-')
StartsWithTemp(id) == id.prefix = "temp-"

\* An identifier as it stands inside a payload: the string itself.
Text(id) == id.prefix \o ToString(id.serial)

\* HomeScreen.tsx:89-98, part_002:132-141: the CreateContainerDto of a
\* container created under the container `parent` picked from the list.
Under(parent) ==
    Obj([NoFields EXCEPT !["name"] = "A", !["parentId"] = Text(parent)])

\* The payload names, as parentId, an identifier with the temporary prefix.
RefersToTemp(data) ==
    \E serial \in 0..(MaxCalls + 1) :
        data.kv["parentId"] = Text(generateTempId(serial))

\* part_006:17-25: the server answers a create request whose parentId names
\* no container it holds with BadRequest; it holds none under a temporary
\* identifier.
Accepts(data, response) == RefersToTemp(data) => response # "ok"

\* The container, and the item in it, that the server holds from the start.
Known == ServerId(0)

(* ------------------------------ Entity Cache -------------------------- *)
\* The fields of Container that the offline paths read or write: id, name and
\* color (string | null, null kept as Absent).
Container(id, name, color) == [id |-> id, name |-> name, color |-> color]

\* Item, likewise: id, name and containerId.
Item(id, name, containerId) == [id |-> id, name |-> name, containerId |-> containerId]

\* ContainerWithItems: a container and its items.
ContainerWithItems(container, items) ==
    [id |-> container.id, name |-> container.name, color |-> container.color,
     items |-> items]

\* The entity the server returns for a create request carrying `data`.
Created(id, data) == Container(id, data.kv["name"], data.kv["color"])

\* part_000:194-210: the placeholder built from CreateContainerDto;
\* `data.color || null`.
TempContainer(tempId, data) == Container(tempId, data.kv["name"], data.kv["color"])

\* `a ?? b`
Coalescing(a, b) == IF a # Absent THEN a ELSE b

\* part_000:243-255: the cached container with the fields of `data` applied.
Updated(existing, data) ==
    Container(existing.id,
              Coalescing(data.kv["name"], existing.name),
              Coalescing(data.kv["color"], existing.color))

\* part_001:43  containers.findIndex(c => c.id === id)
IndexOfContainer(cached, id) ==
    First({i \in 1..Len(cached) : cached[i].id = id})

UpdateContainerOnlyReplaces(cached, container) ==
    LET index == IndexOfContainer(cached, container.id)
    IN  IF index >= 1 THEN [cached EXCEPT ![index] = container] ELSE cached

\* part_001:40-53  OfflineStorage.updateContainer: the collection it stores.
UpdateContainer(cached, container) ==
    LET index == IndexOfContainer(cached, container.id)
    IN  IF index >= 1 THEN [cached EXCEPT ![index] = container]
                      ELSE Append(cached, container)

FilterContainersKeepsAll(cached, containerId) == cached

\* part_001:57-59  OfflineStorage.deleteContainer: the collection it stores.
FilterContainers(cached, containerId) ==
    LET Keep(c) == c.id # containerId IN SelectSeq(cached, Keep)

\* part_001:68-80  OfflineStorage.getContainerDetail returns a detail, not null.
HasDetail(cachedDetails, containerId) ==
    \E d \in cachedDetails : d.id = containerId

\* part_001:75  details[containerId]
DetailOf(cachedDetails, containerId) ==
    CHOOSE d \in cachedDetails : d.id = containerId

\* part_001:82-97  OfflineStorage.setContainerDetail: the mapping it stores.
SetContainerDetail(cachedDetails, containerId, detail) ==
    {d \in cachedDetails : d.id # containerId} \cup {detail}

RemoveContainerDetailKeeps(cachedDetails, containerId) == cachedDetails

\* part_001:99-112  OfflineStorage.removeContainerDetail: the mapping it stores.
RemoveContainerDetail(cachedDetails, containerId) ==
    {d \in cachedDetails : d.id # containerId}

\* part_001:119  detail.items.findIndex(i => i.id === item.id)
IndexOfItem(items, id) == First({i \in 1..Len(items) : items[i].id = id})

\* part_001:115-128  OfflineStorage.updateItemInCache: the mapping it stores.
UpdateItemInCache(cachedDetails, item) ==
    IF HasDetail(cachedDetails, item.containerId)
    THEN LET detail == DetailOf(cachedDetails, item.containerId)
             index == IndexOfItem(detail.items, item.id)
         IN  IF index >= 1
             THEN SetContainerDetail(cachedDetails, item.containerId,
                                     [detail EXCEPT !.items[index] = item])
             ELSE cachedDetails
    ELSE cachedDetails

(* -------------------------------- state ------------------------------- *)
VARIABLES
    storage,      \* AsyncStorage[SYNC_QUEUE_KEY], parsed; a missing key reads as []
    isSyncing,    \* SyncQueue.isSyncing
    isConnected,  \* NetworkStatusManager.isConnected
    clock,        \* Date.now()
    enq,          \* the addToQueue invocations, by the serial number of their operation
    drain,        \* the processQueue invocations, in invocation order
    calls,        \* number of method invocations so far
    last,         \* history: the case of lines 54-79 the latest addToQueue took
    containers,   \* AsyncStorage[STORAGE_KEYS.CONTAINERS], parsed; missing reads as []
    details,      \* AsyncStorage[STORAGE_KEYS.CONTAINER_DETAILS], parsed: the cached details
    api,          \* the ApiService call the application has made last
    sent,         \* history: the remote write requests issued, with their responses
    nextId,       \* serial number of the next identifier generated (server or temporary)
    requests,     \* number of ApiService calls so far
    keys,         \* the keys AsyncStorage holds an entry for
    cache,        \* the OfflineStorage call made last, with the fault it met
    unsubscribe,  \* NetworkStatusManager.unsubscribe is set (not null)
    listeners,    \* NetworkStatusManager.listeners
    fetching,     \* number of NetInfo.fetch() promises of initialize() still pending
    fetched,      \* history: how the latest NetInfo.fetch() settled
    received,     \* history: the last two values each listener was called with
    events,       \* number of calls and platform reports the monitor has had
    pendingSyncCount,  \* useStore: pendingSyncCount
    effect,       \* the dependencies HomeScreen's auto-sync effect last ran with
    counting,     \* the reads of the pending count updatePendingSyncCount awaits
    syncs,        \* the syncPendingOperations invocations, by processQueue invocation
    awaited,      \* history: reachable again with operations queued, no drain invoked since
    session,      \* ApiService.logout: where the call is, and what it found stored
    subscribers,  \* SyncQueue: listeners
    notices,      \* the pending counts notifyListeners and addListener are waiting for
    delivered     \* history: the counts each listener of the queue was called with

queueVars == <<storage, isSyncing, isConnected, clock, enq, drain, calls, last>>

\* The state of the Entity Cache and of the ApiService on top of it.
apiVars == <<containers, details, api, sent, nextId, requests>>

\* The state that only the specifications further down follow.
cacheVars == <<keys, cache>>
monitorVars == <<unsubscribe, listeners, fetching, fetched, received, events>>
homeVars == <<pendingSyncCount, effect, counting, syncs, awaited>>
sessionVars == <<session>>
listenVars == <<subscribers, notices, delivered>>
extraVars == <<cacheVars, monitorVars, homeVars, sessionVars, listenVars>>

vars == <<storage, isSyncing, isConnected, clock, enq, drain, calls, last,
          containers, details, api, sent, nextId, requests, keys, cache,
          unsubscribe, listeners, fetching, fetched, received, events,
          pendingSyncCount, effect, counting, syncs, awaited,
          session, subscribers, notices, delivered>>

CallIds == 1..MaxCalls

IdleEnq == [pc |-> "idle", operation |-> NoOp, queue |-> <<>>]

\* A processQueue invocation: `queue` is its sorted snapshot, `index` the
\* position of the loop in it, `current` the queue its latest read returned,
\* `handed` the operations it has passed to the executor so far.
IdleDrain ==
    [pc |-> "idle", queue |-> <<>>, index |-> 0, current |-> <<>>,
     handed |-> <<>>, success |-> 0, failed |-> 0]

\* No ApiService call has been made.
IdleCall ==
    [call |-> "none", pc |-> "idle", path |-> "none", id |-> NoId,
     data |-> Null, slot |-> 0, cascade |-> FALSE]

\* part_001:4-10  STORAGE_KEYS, and syncQueue.ts:4  SYNC_QUEUE_KEY
CONTAINERS == "@boxfinder_containers"
CONTAINER_DETAILS == "@boxfinder_container_details"
BORROWED_ITEMS == "@boxfinder_borrowed_items"
TEAMS == "@boxfinder_teams"
LAST_SYNC == "@boxfinder_last_sync"
SYNC_QUEUE_KEY == "@boxfinder_sync_queue"

\* A storage fault: the AsyncStorage request of this kind on this key rejects
\* (or, for getItem, returns a string JSON.parse throws on) when the call
\* issues it.
Fault(request, key) == <<request, key>>
NoFault == Fault("none", "none")

\* No OfflineStorage call has been made.  `hit` tells whether the call met
\* its fault; `list`, `detail` (empty for null) and `found` are what a read
\* returned.
IdleCache ==
    [call |-> "none", pc |-> "idle", fault |-> NoFault, hit |-> FALSE,
     id |-> NoId, query |-> <<>>, list |-> <<>>, detail |-> {}, found |-> {}]

\* The listeners of the Connectivity Monitor: the useNetworkStatus hooks of
\* two mounted screens.
ListenerIds == {1, 2}

\* No logout has been called.
IdleSession == [pc |-> "idle", held |-> {}, queued |-> 0, hit |-> FALSE]

Init ==
    /\ storage = <<>>
    /\ isSyncing = FALSE
    /\ isConnected = TRUE
    /\ clock = 0
    /\ enq = [n \in CallIds |-> IdleEnq]
    /\ drain = [p \in CallIds |-> IdleDrain]
    /\ calls = 0
    /\ last = [incoming |-> "none", existing |-> "none"]
    /\ containers = <<>>
    /\ details = {}
    /\ api = IdleCall
    /\ sent = {}
    /\ nextId = 1
    /\ requests = 0
    /\ keys = {}
    /\ cache = IdleCache
    /\ unsubscribe = FALSE
    /\ listeners = {}
    /\ fetching = 0
    /\ fetched = "none"
    /\ received = [l \in ListenerIds |-> <<>>]
    /\ events = 0
    /\ pendingSyncCount = 0
    /\ effect = <<>>
    /\ counting = <<>>
    /\ syncs = [p \in CallIds |-> "none"]
    /\ awaited = FALSE
    /\ session = IdleSession
    /\ subscribers = {}
    /\ notices = <<>>
    /\ delivered = [l \in ListenerIds |-> <<>>]

(* ----------------------------- addToQueue ----------------------------- *)
\* syncQueue.ts:31-47: build the operation, issue the read of the queue.
\* `now` is the value of Date.now() at the invocation.
AddToQueue(n, type, entity, entityId, data, now) ==
    /\ calls < MaxCalls
    /\ enq[n].pc = "idle"
    /\ \A m \in 1..(n - 1) : enq[m].pc # "idle"
    /\ now >= clock
    /\ clock' = now
    /\ enq' = [enq EXCEPT ![n] =
                  [pc |-> "loaded",
                   operation |-> SyncOperation(n, type, entity, entityId, data, now),
                   queue |-> storage]]
    /\ calls' = calls + 1
    /\ UNCHANGED <<storage, isSyncing, isConnected, drain, last>>

\* syncQueue.ts:47-85: the read has resolved; coalesce and issue the write,
\* after which the listeners are notified and operation.id is returned.
AddToQueueSave(n) ==
    /\ enq[n].pc = "loaded"
    /\ last' = Case(enq[n].queue, enq[n].operation)
    /\ storage' = Coalesce(enq[n].queue, enq[n].operation)
    /\ enq' = [enq EXCEPT ![n] = [IdleEnq EXCEPT !.pc = "returned"]]
    /\ UNCHANGED <<isSyncing, isConnected, clock, drain, calls>>

(* ----------------------------- clearQueue ----------------------------- *)
\* syncQueue.ts:186-189
ClearQueue ==
    /\ calls < MaxCalls
    /\ storage' = <<>>
    /\ calls' = calls + 1
    /\ UNCHANGED <<isSyncing, isConnected, clock, enq, drain, last>>

(* ---------------------------- processQueue ---------------------------- *)
Returned(d) ==
    [IdleDrain EXCEPT !.pc = "returned", !.success = d.success, !.failed = d.failed]

\* The loop of syncQueue.ts:147 moves on: hand the next operation of the
\* snapshot to the executor, or leave through the finally block (177-182).
Continue(p, d) ==
    IF d.index < Len(d.queue)
    THEN /\ drain' = [drain EXCEPT ![p] =
                [d EXCEPT !.pc = "executing", !.index = d.index + 1,
                          !.current = <<>>,
                          !.handed = Append(d.handed, d.queue[d.index + 1])]]
         /\ UNCHANGED isSyncing
    ELSE /\ drain' = [drain EXCEPT ![p] = Returned(d)]
         /\ isSyncing' = FALSE

\* syncQueue.ts:122-129: the re-entrancy guard, then the connectivity re-check
\* is issued.
ProcessQueue(p) ==
    /\ calls < MaxCalls
    /\ drain[p].pc = "idle"
    /\ \A q \in 1..(p - 1) : drain[q].pc # "idle"
    /\ drain' = [drain EXCEPT ![p] =
                    IF isSyncing THEN Returned(IdleDrain)
                    ELSE [IdleDrain EXCEPT !.pc = "checking"]]
    /\ calls' = calls + 1
    /\ UNCHANGED <<storage, isSyncing, isConnected, clock, enq, last>>

CheckConnectionProceeds(p, state) ==
    /\ drain[p].pc = "checking"
    /\ isConnected' = OrFalse(state)
    /\ isSyncing' = TRUE
    /\ drain' = [drain EXCEPT ![p].pc = "loading", ![p].current = storage]
    /\ UNCHANGED <<storage, clock, enq, calls, last>>

\* networkStatus.ts:52-56 and syncQueue.ts:129-139: NetInfo.fetch() has
\* resolved; when reachable, raise the flag and issue the read of the queue.
CheckConnection(p, state) ==
    /\ drain[p].pc = "checking"
    /\ isConnected' = OrFalse(state)
    /\ IF OrFalse(state)
       THEN /\ isSyncing' = TRUE
            /\ drain' = [drain EXCEPT ![p].pc = "loading", ![p].current = storage]
       ELSE /\ drain' = [drain EXCEPT ![p] = Returned(IdleDrain)]
            /\ UNCHANGED isSyncing
    /\ UNCHANGED <<storage, clock, enq, calls, last>>

\* syncQueue.ts:139-149: the read has resolved; sort the snapshot and enter
\* the loop.
LoadQueue(p) ==
    /\ drain[p].pc = "loading"
    /\ Continue(p, [drain[p] EXCEPT !.queue = SortByTimestamp(drain[p].current)])
    /\ UNCHANGED <<storage, isConnected, clock, enq, calls, last>>

ExecutorSettledAborts(p, outcome) ==
    /\ drain[p].pc = "executing"
    /\ outcome = "throw"
    /\ drain' = [drain EXCEPT ![p] =
                    Returned([drain[p] EXCEPT !.failed = drain[p].failed + 1])]
    /\ isSyncing' = FALSE
    /\ UNCHANGED <<storage, isConnected, clock, enq, calls, last>>

\* syncQueue.ts:149-176: the executor has settled for the operation at `index`.
ExecutorSettled(p, outcome) ==
    LET d == drain[p]
        operation == d.queue[d.index]
    IN  /\ d.pc = "executing"
        /\ CASE outcome = "true" ->
                  \* 151: removeFromQueue issues its read
                  /\ drain' = [drain EXCEPT ![p].pc = "removing",
                                            ![p].current = storage]
                  /\ UNCHANGED isSyncing
             [] outcome = "false" ->
                  \* 155-162: count the retry on the snapshot's copy
                  /\ drain' = [drain EXCEPT
                        ![p].queue[d.index].retries = operation.retries + 1,
                        ![p].pc = IF RetriesExhausted(operation.retries + 1)
                                  THEN "dropping" ELSE "retrying",
                        ![p].current = storage]
                  /\ UNCHANGED isSyncing
             [] outcome = "throw" ->
                  \* 172-175
                  Continue(p, [d EXCEPT !.failed = d.failed + 1])
        /\ UNCHANGED <<storage, isConnected, clock, enq, calls, last>>

\* syncQueue.ts:109-113 within 151-152 / 158-159: removeFromQueue's read has
\* resolved; filter and issue the write, after which the operation is counted
\* and the loop moves on.
RemoveFromQueue(p) ==
    LET d == drain[p]
    IN  /\ d.pc \in {"removing", "dropping"}
        /\ storage' = WithoutId(d.current, d.queue[d.index].id)
        /\ Continue(p, IF d.pc = "removing"
                       THEN [d EXCEPT !.success = d.success + 1]
                       ELSE [d EXCEPT !.failed = d.failed + 1])
        /\ UNCHANGED <<isConnected, clock, enq, calls, last>>

\* syncQueue.ts:162-170: the read of the current queue has resolved; put the
\* snapshot's copy, with its incremented counter, in the place of the stored
\* operation of the same id, if there still is one, and move on.
SaveRetry(p) ==
    LET d == drain[p]
        operation == d.queue[d.index]
        index == IndexOfId(d.current, operation.id)
    IN  /\ d.pc = "retrying"
        /\ storage' = IF index >= 1 THEN [d.current EXCEPT ![index] = operation]
                                    ELSE storage
        /\ Continue(p, d)
        /\ UNCHANGED <<isConnected, clock, enq, calls, last>>

\* The methods of the queue, invoked in any order and interleaved at their
\* awaits, with an arbitrary executor; the Entity Cache is not involved.
Next ==
    \/ \E n \in CallIds, r \in Requests, entityId \in EntityIds, now \in 0..MaxClock :
          AddToQueue(n, r[1], r[2], entityId, r[3], now) /\ UNCHANGED <<apiVars, extraVars>>
    \/ \E n \in CallIds : AddToQueueSave(n) /\ UNCHANGED <<apiVars, extraVars>>
    \/ ClearQueue /\ UNCHANGED <<apiVars, extraVars>>
    \/ \E p \in CallIds : ProcessQueue(p) /\ UNCHANGED <<apiVars, extraVars>>
    \/ \E p \in CallIds, state \in NetInfoStates :
          CheckConnection(p, state) /\ UNCHANGED <<apiVars, extraVars>>
    \/ \E p \in CallIds : LoadQueue(p) /\ UNCHANGED <<apiVars, extraVars>>
    \/ \E p \in CallIds, outcome \in Outcomes :
          ExecutorSettled(p, outcome) /\ UNCHANGED <<apiVars, extraVars>>
    \/ \E p \in CallIds : RemoveFromQueue(p) /\ UNCHANGED <<apiVars, extraVars>>
    \/ \E p \in CallIds : SaveRetry(p) /\ UNCHANGED <<apiVars, extraVars>>

Spec == Init /\ [][Next]_vars

(* ============================== ApiService ============================ *)
\* The application makes one ApiService call at a time and awaits it: what
\* follows are the contracts of single calls on top of the queue and the
\* Entity Cache.  A call that ends without awaiting the queue is one step; a
\* call that enqueues is the step up to addToQueue's read of the queue and
\* the step AddToQueueSave; processSyncQueue runs through the steps of
\* processQueue with the executor of part_000:507-550.

\* What becomes of a remote request: a success response, no response
\* (timeout, transport error), or an error response of the server.
Responses == {"ok", "network", "rejected"}

\* part_000:24-35: an axios error without a response is a network error.
isNetworkError(response) == response = "network"

\* The server knows no temporary identifier: a request addressed to one
\* cannot succeed.
Answers(id, response) == StartsWithTemp(id) => response # "ok"

\* part_000:177-190 and alike: with the monitor saying reachable the request
\* is sent, and an error that is not a network error is thrown; otherwise
\* the offline handling runs.
Path(response) ==
    IF isConnected /\ response = "ok" THEN "online"
    ELSE IF isConnected /\ ~isNetworkError(response) THEN "rejected"
    ELSE "offline"

\* A remote write request as the executor issued it for a replayed
\* operation, with the response it got and, for a create that succeeded, the
\* identifier assigned.
Request(type, entity, entityId, operation, response, assigned) ==
    [type |-> type, entity |-> entity, entityId |-> entityId,
     operation |-> operation, response |-> response, assigned |-> assigned]

\* The application may make its next call.
Ready == api.pc \in {"idle", "returned", "threw"} /\ requests < MaxCalls

Call(call, pc, path, id, data, slot) ==
    [call |-> call, pc |-> pc, path |-> path, id |-> id, data |-> data,
     slot |-> slot, cascade |-> FALSE]

\* The container identifiers the application can name: those it sees in the
\* cached collection, and the one the server holds from the start.
Targets == {containers[i].id : i \in 1..Len(containers)} \cup {Known}

\* The server's copy of a container, as far as the client can tell.
ServerCopy(id) ==
    IF IndexOfContainer(containers, id) >= 1
    THEN containers[IndexOfContainer(containers, id)]
    ELSE Container(id, "A", Absent)

\* part_000:176-216  createContainer
ApiCreateContainer(n, data, response, now) ==
    LET path == Path(response)
        tempId == generateTempId(nextId)
    IN  /\ Ready
        /\ Accepts(data, response)
        /\ requests' = requests + 1
        /\ CASE path = "online" ->
                  /\ containers' =
                         UpdateContainer(containers, Created(ServerId(nextId), data))
                  /\ nextId' = nextId + 1
                  /\ api' = Call("createContainer", "returned", path,
                                 ServerId(nextId), data, 0)
                  /\ UNCHANGED queueVars
             [] path = "rejected" ->
                  /\ api' = Call("createContainer", "threw", path, NoId, data, 0)
                  /\ UNCHANGED <<queueVars, containers, nextId>>
             [] path = "offline" ->
                  /\ containers' =
                         UpdateContainer(containers, TempContainer(tempId, data))
                  /\ nextId' = nextId + 1
                  /\ AddToQueue(n, "CREATE", "container", tempId, data, now)
                  /\ api' = Call("createContainer", "queueing", path, tempId, data, n)
        /\ UNCHANGED <<details, sent>>

\* part_000:218-262  updateContainer
ApiUpdateContainer(n, id, data, response, now) ==
    LET path == Path(response)
        index == IndexOfContainer(containers, id)
    IN  /\ Ready
        /\ Answers(id, response)
        /\ requests' = requests + 1
        /\ CASE path = "online" ->
                  /\ containers' =
                         UpdateContainer(containers, Updated(ServerCopy(id), data))
                  /\ api' = Call("updateContainer", "returned", path, id, data, 0)
                  /\ UNCHANGED queueVars
             [] path = "rejected" ->
                  /\ api' = Call("updateContainer", "threw", path, id, data, 0)
                  /\ UNCHANGED <<queueVars, containers>>
             [] path = "offline" /\ index >= 1 ->
                  /\ containers' =
                         UpdateContainer(containers, Updated(containers[index], data))
                  /\ AddToQueue(n, "UPDATE", "container", id, data, now)
                  /\ api' = Call("updateContainer", "queueing", path, id, data, n)
             [] path = "offline" /\ index = 0 ->
                  \* 261: throw new Error('Container not found in cache')
                  /\ api' = Call("updateContainer", "threw", path, id, data, 0)
                  /\ UNCHANGED <<queueVars, containers>>
        /\ UNCHANGED <<details, sent, nextId>>

\* part_000:264-286  deleteContainer, with OfflineStorage.deleteContainer
\* (part_001:55-65) in it.
ApiDeleteContainer(n, id, response, now) ==
    LET path == Path(response)
        removed == [Call("deleteContainer", "returned", path, id, Null, 0)
                       EXCEPT !.cascade = HasDetail(details, id)]
    IN  /\ Ready
        /\ Answers(id, response)
        /\ requests' = requests + 1
        /\ CASE path = "online" ->
                  /\ containers' = FilterContainers(containers, id)
                  /\ details' = RemoveContainerDetail(details, id)
                  /\ api' = removed
                  /\ UNCHANGED queueVars
             [] path = "rejected" ->
                  /\ api' = Call("deleteContainer", "threw", path, id, Null, 0)
                  /\ UNCHANGED <<queueVars, containers, details>>
             [] path = "offline" /\ ~StartsWithTemp(id) ->
                  /\ containers' = FilterContainers(containers, id)
                  /\ details' = RemoveContainerDetail(details, id)
                  /\ AddToQueue(n, "DELETE", "container", id, Null, now)
                  /\ api' = [removed EXCEPT !.pc = "queueing", !.slot = n]
             [] path = "offline" /\ StartsWithTemp(id) ->
                  \* 283: nothing is queued for a temporary identifier
                  /\ containers' = FilterContainers(containers, id)
                  /\ details' = RemoveContainerDetail(details, id)
                  /\ api' = removed
                  /\ UNCHANGED queueVars
        /\ UNCHANGED <<sent, nextId>>

\* The item the server returns for an update request carrying `data`; the
\* item lives in the container Known.
ServerItem(id, data) == Item(id, Coalescing(data.kv["name"], "A"), Known)

\* part_000:348-386  updateItem
ApiUpdateItem(n, id, data, response, now) ==
    LET path == Path(response)
    IN  /\ Ready
        /\ requests' = requests + 1
        /\ CASE path = "online" ->
                  /\ details' = UpdateItemInCache(details, ServerItem(id, data))
                  /\ api' = Call("updateItem", "returned", path, id, data, 0)
                  /\ UNCHANGED queueVars
             [] path = "rejected" ->
                  /\ api' = Call("updateItem", "threw", path, id, data, 0)
                  /\ UNCHANGED <<queueVars, details>>
             [] path = "offline" ->
                  \* 364-385: queue the operation, return a placeholder
                  /\ AddToQueue(n, "UPDATE", "item", id, data, now)
                  /\ api' = Call("updateItem", "queueing", path, id, data, n)
                  /\ UNCHANGED details
        /\ UNCHANGED <<containers, sent, nextId>>

\* part_000:388-404  deleteItem
ApiDeleteItem(n, id, response, now) ==
    LET path == Path(response)
    IN  /\ Ready
        /\ requests' = requests + 1
        /\ CASE path = "online" ->
                  /\ api' = Call("deleteItem", "returned", path, id, Null, 0)
                  /\ UNCHANGED queueVars
             [] path = "rejected" ->
                  /\ api' = Call("deleteItem", "threw", path, id, Null, 0)
                  /\ UNCHANGED queueVars
             [] path = "offline" ->
                  /\ AddToQueue(n, "DELETE", "item", id, Null, now)
                  /\ api' = Call("deleteItem", "queueing", path, id, Null, n)
        /\ UNCHANGED <<containers, details, sent, nextId>>

\* The write in progress resumes from `await syncQueue.addToQueue(...)` and
\* returns (part_000:213-215, 257-258, 284-286, 364-385, 403-404).
ApiWriteQueued ==
    /\ api.pc = "queueing"
    /\ AddToQueueSave(api.slot)
    /\ api' = [api EXCEPT !.pc = "returned"]
    /\ UNCHANGED <<containers, details, sent, nextId, requests>>

(* -------------------------------- reads ------------------------------- *)
\* What the server lists: nothing, or the container it holds from the start.
Listings == {<<>>, <<Container(Known, "A", Absent)>>}

\* The detail the server returns for a container.
ServerDetail(id) ==
    ContainerWithItems(ServerCopy(id),
                       IF id = Known THEN <<Item(Known, "A", Known)>> ELSE <<>>)

\* The outcome of a read: where the value came from, or that it threw.
Read(call, pc, path, id) == Call(call, pc, path, id, Null, 0)

\* part_000:118-131  getContainers
ApiGetContainers(response, listing) ==
    /\ Ready
    /\ requests' = requests + 1
    /\ CASE response = "ok" ->
              /\ containers' = listing
              /\ api' = Read("getContainers", "returned", "online", NoId)
         [] isNetworkError(response) ->
              \* 127: the cached collection, [] when none
              /\ api' = Read("getContainers", "returned", "offline", NoId)
              /\ UNCHANGED containers
         [] response = "rejected" ->
              /\ api' = Read("getContainers", "threw", "rejected", NoId)
              /\ UNCHANGED containers
    /\ UNCHANGED <<queueVars, details, sent, nextId>>

\* part_000:133-151  getContainer
ApiGetContainer(id, response) ==
    /\ Ready
    /\ Answers(id, response)
    /\ requests' = requests + 1
    /\ CASE response = "ok" ->
              /\ details' = SetContainerDetail(details, id, ServerDetail(id))
              /\ api' = Read("getContainer", "returned", "online", id)
         [] isNetworkError(response) ->
              \* 144-149: the cached detail if there is one, else `throw error`
              /\ api' = Read("getContainer",
                             IF HasDetail(details, id) THEN "returned" ELSE "threw",
                             "offline", id)
              /\ UNCHANGED details
         [] response = "rejected" ->
              /\ api' = Read("getContainer", "threw", "rejected", id)
              /\ UNCHANGED details
    /\ UNCHANGED <<queueVars, containers, sent, nextId>>

\* part_000:309-324  getItemsByContainer
ApiGetItemsByContainer(id, response) ==
    /\ Ready
    /\ Answers(id, response)
    /\ requests' = requests + 1
    /\ CASE response = "ok" ->
              api' = Read("getItemsByContainer", "returned", "online", id)
         [] isNetworkError(response) ->
              \* 317-322: the items of the cached detail, else `throw error`
              api' = Read("getItemsByContainer",
                          IF HasDetail(details, id) THEN "returned" ELSE "threw",
                          "offline", id)
         [] response = "rejected" ->
              api' = Read("getItemsByContainer", "threw", "rejected", id)
    /\ UNCHANGED <<queueVars, containers, details, sent, nextId>>

(* --------------------------- processSyncQueue -------------------------- *)
\* The call returns in the step in which its processQueue invocation does.
Synced ==
    api' = IF drain'[api.slot].pc = "returned"
           THEN [api EXCEPT !.pc = "returned"] ELSE api

\* part_000:506-507  processSyncQueue calls syncQueue.processQueue
ApiProcessSyncQueue(p) ==
    /\ Ready
    /\ requests' = requests + 1
    /\ ProcessQueue(p)
    /\ api' = Call("processSyncQueue",
                   IF drain'[p].pc = "returned" THEN "returned" ELSE "syncing",
                   "none", NoId, Null, p)
    /\ UNCHANGED <<containers, details, sent, nextId>>

SyncCheckConnection(state) ==
    /\ api.pc = "syncing"
    /\ CheckConnection(api.slot, state)
    /\ Synced
    /\ UNCHANGED <<containers, details, sent, nextId, requests>>

SyncLoadQueue ==
    /\ api.pc = "syncing"
    /\ LoadQueue(api.slot)
    /\ Synced
    /\ UNCHANGED <<containers, details, sent, nextId, requests>>

RecognisedWhatever(operation) == TRUE

\* part_000:509-543: the (entity, type) pairs the executor has a remote call for.
Recognised(operation) ==
    \/ operation.entity = "container"
    \/ operation.entity = "item" /\ operation.type \in {"UPDATE", "DELETE"}

\* part_000:507-550: the executor runs for the operation the pass has handed
\* it, the remote request getting `response`.  Every error is caught and
\* turned into false (546-549).
Execute(response) ==
    LET d == drain[api.slot]
        operation == d.queue[d.index]
        swap == operation.type = "CREATE" /\ response = "ok"
    IN  /\ api.pc = "syncing"
        /\ d.pc = "executing"
        /\ IF Recognised(operation)
           THEN /\ operation.type # "CREATE" => Answers(operation.entityId, response)
                /\ operation.type = "CREATE" => Accepts(operation.data, response)
                /\ sent' = sent \cup
                       {Request(operation.type, operation.entity, operation.entityId,
                                operation.id, response,
                                IF swap THEN ServerId(nextId) ELSE NoId)}
                /\ IF swap
                   THEN \* 516-518: update the cache with the real id
                        /\ containers' =
                               UpdateContainer(
                                   FilterContainers(containers, operation.entityId),
                                   Created(ServerId(nextId), operation.data))
                        /\ details' = RemoveContainerDetail(details, operation.entityId)
                        /\ nextId' = nextId + 1
                   ELSE UNCHANGED <<containers, details, nextId>>
                /\ ExecutorSettled(api.slot, IF response = "ok" THEN "true" ELSE "false")
           ELSE \* 545: no request is made; one value of `response` stands
                \* for all
                /\ response = "rejected"
                /\ ExecutorSettled(api.slot, "false")
                /\ UNCHANGED <<containers, details, sent, nextId>>
        /\ Synced
        /\ UNCHANGED requests

SyncRemoveFromQueue ==
    /\ api.pc = "syncing"
    /\ RemoveFromQueue(api.slot)
    /\ Synced
    /\ UNCHANGED <<containers, details, sent, nextId, requests>>

SyncSaveRetry ==
    /\ api.pc = "syncing"
    /\ SaveRetry(api.slot)
    /\ Synced
    /\ UNCHANGED <<containers, details, sent, nextId, requests>>

\* networkStatus.ts:15-18: the platform reports a network state.  Reports
\* that leave the value as it is, and reports during a call - which reads the
\* value only when it starts - are left out.
NetInfoEvent(state) ==
    /\ api.pc \notin {"queueing", "syncing"}
    /\ OrFalse(state) # isConnected
    /\ isConnected' = OrFalse(state)
    /\ UNCHANGED <<storage, isSyncing, clock, enq, drain, calls, last, apiVars>>

\* The payloads the screens pass: CreateContainerDto, Partial<CreateContainerDto>
\* and UpdateItemDto.
Creations == {Rename("A")}
Updates == {Rename("B"), Recolor("red")}

ApiNext ==
    \/ \E n \in CallIds, data \in Creations, response \in Responses, now \in 0..MaxClock :
          ApiCreateContainer(n, data, response, now) /\ UNCHANGED extraVars
    \/ \E n \in CallIds, id \in Targets, data \in Updates, response \in Responses,
           now \in 0..MaxClock :
          ApiUpdateContainer(n, id, data, response, now) /\ UNCHANGED extraVars
    \/ \E n \in CallIds, id \in Targets, response \in Responses, now \in 0..MaxClock :
          ApiDeleteContainer(n, id, response, now) /\ UNCHANGED extraVars
    \/ \E n \in CallIds, response \in Responses, now \in 0..MaxClock :
          ApiUpdateItem(n, Known, Rename("B"), response, now) /\ UNCHANGED extraVars
    \/ \E n \in CallIds, response \in Responses, now \in 0..MaxClock :
          ApiDeleteItem(n, Known, response, now) /\ UNCHANGED extraVars
    \/ ApiWriteQueued /\ UNCHANGED extraVars
    \/ \E response \in Responses, listing \in Listings :
          ApiGetContainers(response, listing) /\ UNCHANGED extraVars
    \/ \E id \in Targets, response \in Responses : ApiGetContainer(id, response) /\ UNCHANGED extraVars
    \/ \E id \in Targets, response \in Responses : ApiGetItemsByContainer(id, response) /\ UNCHANGED extraVars
    \/ \E p \in CallIds : ApiProcessSyncQueue(p) /\ UNCHANGED extraVars
    \/ \E state \in NetInfoStates : SyncCheckConnection(state) /\ UNCHANGED extraVars
    \/ SyncLoadQueue /\ UNCHANGED extraVars
    \/ \E response \in Responses : Execute(response) /\ UNCHANGED extraVars
    \/ SyncRemoveFromQueue /\ UNCHANGED extraVars
    \/ SyncSaveRetry /\ UNCHANGED extraVars
    \/ \E state \in NetInfoStates : NetInfoEvent(state) /\ UNCHANGED extraVars

ApiSpec == Init /\ [][ApiNext]_vars

(* ============================ OfflineStorage ========================== *)
\* The methods of the Entity Cache (part_001) called one at a time, each of
\* them able to meet a storage fault.  Every method wraps its body in a
\* try/catch that logs the error and returns.

\* The faults followed: a failing read or write of the collection or of the
\* detail mapping, and a failing multiRemove.  The write of the last-sync
\* timestamp is taken to succeed.
Faults ==
    {NoFault, Fault("multiRemove", "cache")} \cup
    {Fault(request, key) : request \in {"getItem", "setItem"},
                           key \in {CONTAINERS, CONTAINER_DETAILS}}

\* What AsyncStorage holds for the Entity Cache; `hit` is set once a request
\* of the call has failed.
Stored == [containers |-> containers, details |-> details, keys |-> keys, hit |-> FALSE]

\* A request of the call has failed.
Failed(s) == [s EXCEPT !.hit = TRUE]

\* part_001:18-26  getContainers: [] for a missing key and on any error.
GetContainersFrom(s, fault) ==
    IF fault = Fault("getItem", CONTAINERS) THEN <<>> ELSE s.containers

\* part_001:227-236  setLastSync
SetLastSyncIn(s) == [s EXCEPT !.keys = @ \cup {LAST_SYNC}]

\* part_001:28-38  setContainers
SetContainersIn(s, value, fault) ==
    IF fault = Fault("setItem", CONTAINERS) THEN Failed(s)
    ELSE SetLastSyncIn([s EXCEPT !.containers = value, !.keys = @ \cup {CONTAINERS}])

\* The call reads the collection through getContainers, which swallows a
\* fault of its own.
ReadCollection(s, fault) ==
    IF fault = Fault("getItem", CONTAINERS) THEN Failed(s) ELSE s

\* part_001:40-53  updateContainer
UpdateContainerIn(s, container, fault) ==
    SetContainersIn(ReadCollection(s, fault),
                    UpdateContainer(GetContainersFrom(s, fault), container), fault)

\* part_001:99-112  removeContainerDetail; `if (!data) return`
RemoveContainerDetailIn(s, containerId, fault) ==
    IF fault = Fault("getItem", CONTAINER_DETAILS) THEN Failed(s)
    ELSE IF CONTAINER_DETAILS \notin s.keys THEN s
    ELSE IF fault = Fault("setItem", CONTAINER_DETAILS) THEN Failed(s)
    ELSE [s EXCEPT !.details = RemoveContainerDetail(@, containerId)]

\* part_001:55-65  deleteContainer
DeleteContainerIn(s, containerId, fault) ==
    RemoveContainerDetailIn(
        SetContainersIn(ReadCollection(s, fault),
                        FilterContainers(GetContainersFrom(s, fault), containerId),
                        fault),
        containerId, fault)

\* part_001:68-80  getContainerDetail: the detail, or nothing for null.
GetContainerDetailFrom(s, containerId, fault) ==
    IF fault = Fault("getItem", CONTAINER_DETAILS) \/ ~HasDetail(s.details, containerId)
    THEN {}
    ELSE {DetailOf(s.details, containerId)}

\* part_001:82-97  setContainerDetail
SetContainerDetailIn(s, containerId, detail, fault) ==
    IF fault \in {Fault("getItem", CONTAINER_DETAILS), Fault("setItem", CONTAINER_DETAILS)}
    THEN Failed(s)
    ELSE [s EXCEPT !.details = SetContainerDetail(@, containerId, detail),
                   !.keys = @ \cup {CONTAINER_DETAILS}]

\* part_001:239-251  clearCache
ClearCacheKeepsTeams(s, fault) ==
    IF fault = Fault("multiRemove", "cache") THEN Failed(s)
    ELSE [s EXCEPT !.containers = <<>>, !.details = {},
                   !.keys = @ \ {CONTAINERS, CONTAINER_DETAILS, BORROWED_ITEMS,
                                 LAST_SYNC}]

ClearCacheIn(s, fault) ==
    IF fault = Fault("multiRemove", "cache") THEN Failed(s)
    ELSE [s EXCEPT !.containers = <<>>, !.details = {},
                   !.keys = @ \ {CONTAINERS, CONTAINER_DETAILS, BORROWED_ITEMS,
                                 TEAMS, LAST_SYNC}]

(* ------------------------------- search ------------------------------- *)
\* A string is the sequence of its letters.
Letters == {"a", "A", "b", "B"}

LowerOf == [c \in Letters |-> IF c \in {"a", "A"} THEN "a" ELSE "b"]

toLowerCaseKeepsCase(string) == string

\* String.prototype.toLowerCase
toLowerCase(string) == [i \in 1..Len(string) |-> LowerOf[string[i]]]

\* String.prototype.includes
includes(string, searchString) ==
    \E i \in 0..(Len(string) - Len(searchString)) :
        SubSeq(string, i + 1, i + Len(searchString)) = searchString

\* The fields of Item that the local search reads, with id and containerId.
\* `description` is optional: no string or one; `aiTags` undefined is [].
CachedItem(id, name, description, aiTags, containerId) ==
    [id |-> id, name |-> name, description |-> description, aiTags |-> aiTags,
     containerId |-> containerId]

\* part_001:204-206: the condition under which an item is pushed.
Matching(item, lowerQuery) ==
    \/ includes(toLowerCase(item.name), lowerQuery)
    \/ \E i \in 1..Len(item.description) :
          includes(toLowerCase(item.description[i]), lowerQuery)
    \/ \E i \in 1..Len(item.aiTags) :
          includes(toLowerCase(item.aiTags[i]), lowerQuery)

\* The items of every cached detail.
ItemsOf(cachedDetails) ==
    UNION {{d.items[i] : i \in 1..Len(d.items)} : d \in cachedDetails}

\* part_001:189-215  searchItemsLocally: the items it returns (their order
\* is not followed).  A fault of the read leaves `results` empty.
searchItemsLocally(s, query, fault) ==
    IF fault = Fault("getItem", CONTAINER_DETAILS) THEN {}
    ELSE {item \in ItemsOf(s.details) : Matching(item, toLowerCase(query))}

(* ------------------------------ the calls ----------------------------- *)
\* A second container of the server, next to Known.
Another == ServerId(1)

Lamp == CachedItem(ServerId(1), <<"A", "b">>, <<>>, <<>>, Known)
Rope == CachedItem(ServerId(2), <<"b">>, << <<"a", "B">> >>, <<>>, Known)
Tent == CachedItem(ServerId(3), <<"B">>, <<>>, << <<"b", "A">> >>, Another)

\* The detail the server returns for a container, with items to search.
Fetched(id) ==
    ContainerWithItems(Container(id, "A", Absent),
                       IF id = Known THEN <<Lamp, Rope>> ELSE <<Tent>>)

\* The collections the server lists, and the containers a write passes.
Collections ==
    {<<>>, <<Container(Known, "A", Absent)>>,
     <<Container(Known, "A", Absent), Container(Another, "A", Absent)>>}
Passed == {Container(Known, "B", Absent), Container(Another, "A", Absent)}

\* What the user types in the search box.
Queries == {<<"a">>, <<"A", "B">>, <<"B", "a">>, <<"b", "b">>}

\* The application may make its next OfflineStorage call.
CacheReady == cache.pc \in {"idle", "returned"} /\ requests < MaxCalls

\* The call has run on the stored state and left `s`.
Commit(s) ==
    /\ containers' = s.containers
    /\ details' = s.details
    /\ keys' = s.keys
    /\ requests' = requests + 1

CacheCall(call, fault, s, id) ==
    [IdleCache EXCEPT !.call = call, !.pc = "returned", !.fault = fault,
                      !.hit = s.hit, !.id = id]

CacheGetContainers(fault) ==
    /\ CacheReady
    /\ Commit(Stored)
    /\ cache' = [CacheCall("getContainers", fault, ReadCollection(Stored, fault), NoId)
                    EXCEPT !.list = GetContainersFrom(Stored, fault)]

CacheSetContainers(value, fault) ==
    LET s == SetContainersIn(Stored, value, fault)
    IN  /\ CacheReady
        /\ Commit(s)
        /\ cache' = CacheCall("setContainers", fault, s, NoId)

CacheUpdateContainer(container, fault) ==
    LET s == UpdateContainerIn(Stored, container, fault)
    IN  /\ CacheReady
        /\ Commit(s)
        /\ cache' = CacheCall("updateContainer", fault, s, container.id)

CacheDeleteContainer(containerId, fault) ==
    LET s == DeleteContainerIn(Stored, containerId, fault)
    IN  /\ CacheReady
        /\ Commit(s)
        /\ cache' = CacheCall("deleteContainer", fault, s, containerId)

CacheGetContainerDetail(containerId, fault) ==
    LET s == IF fault = Fault("getItem", CONTAINER_DETAILS) THEN Failed(Stored)
             ELSE Stored
    IN  /\ CacheReady
        /\ Commit(Stored)
        /\ cache' = [CacheCall("getContainerDetail", fault, s, containerId)
                        EXCEPT !.detail = GetContainerDetailFrom(Stored, containerId, fault)]

CacheSetContainerDetail(containerId, fault) ==
    LET s == SetContainerDetailIn(Stored, containerId, Fetched(containerId), fault)
    IN  /\ CacheReady
        /\ Commit(s)
        /\ cache' = CacheCall("setContainerDetail", fault, s, containerId)

CacheClearCache(fault) ==
    LET s == ClearCacheIn(Stored, fault)
    IN  /\ CacheReady
        /\ Commit(s)
        /\ cache' = CacheCall("clearCache", fault, s, NoId)

CacheSearchItemsLocally(query, fault) ==
    LET s == IF fault = Fault("getItem", CONTAINER_DETAILS) THEN Failed(Stored)
             ELSE Stored
    IN  /\ CacheReady
        /\ Commit(Stored)
        /\ cache' = [CacheCall("searchItemsLocally", fault, s, NoId)
                        EXCEPT !.query = query,
                               !.found = searchItemsLocally(Stored, query, fault)]

\* What the calls of the Entity Cache leave alone.
cacheFrame ==
    <<queueVars, api, sent, nextId, monitorVars, homeVars, sessionVars, listenVars>>

\* The requests each method can issue are the faults it is tried with.
CacheNext ==
    \/ \E fault \in {NoFault, Fault("getItem", CONTAINERS)} :
          CacheGetContainers(fault) /\ UNCHANGED cacheFrame
    \/ \E value \in Collections, fault \in {NoFault, Fault("setItem", CONTAINERS)} :
          CacheSetContainers(value, fault) /\ UNCHANGED cacheFrame
    \/ \E container \in Passed,
          fault \in {NoFault, Fault("getItem", CONTAINERS), Fault("setItem", CONTAINERS)} :
          CacheUpdateContainer(container, fault) /\ UNCHANGED cacheFrame
    \/ \E containerId \in {Known, Another}, fault \in Faults \ {Fault("multiRemove", "cache")} :
          CacheDeleteContainer(containerId, fault) /\ UNCHANGED cacheFrame
    \/ \E containerId \in {Known, Another},
          fault \in {NoFault, Fault("getItem", CONTAINER_DETAILS)} :
          CacheGetContainerDetail(containerId, fault) /\ UNCHANGED cacheFrame
    \/ \E containerId \in {Known, Another},
          fault \in {NoFault, Fault("getItem", CONTAINER_DETAILS),
                     Fault("setItem", CONTAINER_DETAILS)} :
          CacheSetContainerDetail(containerId, fault) /\ UNCHANGED cacheFrame
    \/ \E fault \in {NoFault, Fault("multiRemove", "cache")} :
          CacheClearCache(fault) /\ UNCHANGED cacheFrame
    \/ \E query \in Queries, fault \in {NoFault, Fault("getItem", CONTAINER_DETAILS)} :
          CacheSearchItemsLocally(query, fault) /\ UNCHANGED cacheFrame

CacheSpec == Init /\ [][CacheNext]_vars

(* ========================= Connectivity Monitor ======================= *)
\* NetworkStatusManager (networkStatus.ts) with its listeners, driven by
\* App (initialize, cleanup), by the useNetworkStatus hooks (addListener and
\* the function it returns), by the platform's reports, and by processQueue,
\* the one caller of checkConnection.  Listeners run synchronously inside
\* notifyListeners.

\* How a NetInfo.fetch() promise settles: with a state, or rejected.
Settlements == NetInfoStates \cup {"rejected"}

\* A listener is called with `value`; the last two calls are kept.
Deliver(calls_, value) ==
    IF Len(calls_) = 2 THEN <<calls_[2], value>> ELSE Append(calls_, value)

\* networkStatus.ts:32-36  notifyListeners, this.isConnected being `value`
NotifyListeners(value) ==
    received' = [l \in ListenerIds |->
                    IF l \in listeners THEN Deliver(received[l], value)
                    ELSE received[l]]

\* One more call or platform report.
Stimulus == events < MaxEvents /\ events' = events + 1

\* networkStatus.ts:10-30  initialize: subscribe to the platform and issue
\* the initial NetInfo.fetch(); nothing when already subscribed.
Initialize ==
    /\ Stimulus
    /\ IF unsubscribe
       THEN UNCHANGED <<unsubscribe, fetching>>
       ELSE unsubscribe' = TRUE /\ fetching' = fetching + 1
    /\ UNCHANGED <<isConnected, listeners, fetched, received>>

\* networkStatus.ts:15-23: the callback given to NetInfo.addEventListener
NetInfoReport(state) ==
    /\ Stimulus
    /\ unsubscribe
    /\ isConnected' = OrFalse(state)
    /\ IF isConnected # OrFalse(state)
       THEN NotifyListeners(OrFalse(state))
       ELSE UNCHANGED received
    /\ UNCHANGED <<unsubscribe, listeners, fetching, fetched>>

\* networkStatus.ts:26-29: the initial NetInfo.fetch() has settled.  There
\* is no rejection handler: a rejected promise leaves everything as it is.
ProbeSettled(settlement) ==
    /\ fetching > 0
    /\ fetching' = fetching - 1
    /\ fetched' = settlement
    /\ IF settlement = "rejected"
       THEN UNCHANGED <<isConnected, received>>
       ELSE /\ isConnected' = OrFalse(settlement)
            /\ NotifyListeners(OrFalse(settlement))
    /\ UNCHANGED <<unsubscribe, listeners, events>>

\* networkStatus.ts:38-42  addListener: the listener is called at once
AddListener(l) ==
    /\ Stimulus
    /\ l \notin listeners
    /\ listeners' = listeners \cup {l}
    /\ received' = [received EXCEPT ![l] = <<isConnected>>]
    /\ UNCHANGED <<isConnected, unsubscribe, fetching, fetched>>

\* networkStatus.ts:43-45: the function addListener returned
RemoveListener(l) ==
    /\ Stimulus
    /\ l \in listeners
    /\ listeners' = listeners \ {l}
    /\ UNCHANGED <<isConnected, unsubscribe, fetching, fetched, received>>

\* networkStatus.ts:58-64  cleanup
Cleanup ==
    /\ Stimulus
    /\ unsubscribe' = FALSE
    /\ listeners' = {}
    /\ UNCHANGED <<isConnected, fetching, fetched, received>>

\* networkStatus.ts:53 and syncQueue.ts:129: the NetInfo.fetch() of
\* checkConnection rejects; neither checkConnection nor processQueue, which
\* awaits it outside its try block, handles the rejection.
CheckConnectionRejected(p) ==
    /\ drain[p].pc = "checking"
    /\ drain' = [drain EXCEPT ![p] = [IdleDrain EXCEPT !.pc = "threw"]]
    /\ fetched' = "rejected"
    /\ UNCHANGED <<storage, isSyncing, isConnected, clock, enq, calls, last,
                   unsubscribe, listeners, fetching, received, events>>

\* What the monitor's own methods, and the queue's, leave alone.
monitorFrame ==
    <<storage, isSyncing, clock, enq, drain, calls, last, apiVars, cacheVars, sessionVars, listenVars, homeVars>>
passFrame ==
    <<apiVars, cacheVars, sessionVars, listenVars, homeVars, unsubscribe, listeners, fetching, received, events>>

MonitorNext ==
    \/ Initialize /\ UNCHANGED monitorFrame
    \/ \E state \in NetInfoStates : NetInfoReport(state) /\ UNCHANGED monitorFrame
    \/ \E settlement \in Settlements : ProbeSettled(settlement) /\ UNCHANGED monitorFrame
    \/ \E l \in ListenerIds : AddListener(l) /\ UNCHANGED monitorFrame
    \/ \E l \in ListenerIds : RemoveListener(l) /\ UNCHANGED monitorFrame
    \/ Cleanup /\ UNCHANGED monitorFrame
    \/ \E p \in 1..MaxPasses : ProcessQueue(p) /\ UNCHANGED <<passFrame, fetched>>
    \/ \E p \in CallIds, state \in NetInfoStates :
          CheckConnection(p, state) /\ fetched' = state /\ UNCHANGED passFrame
    \/ \E p \in CallIds : CheckConnectionRejected(p) /\ UNCHANGED <<apiVars, cacheVars, sessionVars, listenVars, homeVars>>
    \/ \E p \in CallIds : LoadQueue(p) /\ UNCHANGED <<passFrame, fetched>>

MonitorSpec == Init /\ [][MonitorNext]_vars

(* ============================== HomeScreen ============================ *)
\* The auto-sync of HomeScreen (HomeScreen.tsx:58-76) over the store
\* (part_002:175-188), the monitor and the queue.  Listener 1 is the
\* useNetworkStatus hook of HomeScreen: the value it was last called with is
\* the hook's state.  React runs an effect after the render that follows a
\* change of its dependencies; the effects are steps of their own.
\* loadContainers, which touches neither the queue nor the count, is left out.

\* HomeScreen is mounted: its hook has subscribed.
Mounted == 1 \in listeners

\* BorrowedItemsScreen.tsx:508-522  useNetworkStatus().isOffline
isOffline == ~received[1][Len(received[1])]

\* HomeScreen.tsx:76: the dependencies of the auto-sync effect that change.
Deps == <<isOffline, pendingSyncCount>>

\* part_002:176  syncQueue.getPendingCount(): the read of the queue is issued.
GetPendingCount == counting' = Append(counting, Len(storage))

\* Reachability observed going from unreachable to reachable while the
\* persisted queue holds an operation.
BecameReachable ==
    awaited' = (awaited \/ (~isConnected /\ isConnected' /\ storage # <<>>))

\* App.tsx:100-103: App mounts and initializes the monitor.
AppMount ==
    /\ ~unsubscribe
    /\ Initialize
    /\ UNCHANGED <<storage, isSyncing, clock, enq, drain, calls, last, homeVars>>

\* HomeScreen mounts: its hook subscribes (BorrowedItemsScreen.tsx:512-516)
\* and the focus effect (HomeScreen.tsx:64-69) calls updatePendingSyncCount.
HomeMount ==
    /\ unsubscribe
    /\ AddListener(1)
    /\ GetPendingCount
    /\ UNCHANGED <<storage, isSyncing, clock, enq, drain, calls, last,
                   pendingSyncCount, effect, syncs, awaited>>

\* HomeScreen.tsx:64-69: the user comes back to HomeScreen.
Focus ==
    /\ Mounted
    /\ Stimulus
    /\ GetPendingCount
    /\ UNCHANGED <<storage, isSyncing, isConnected, clock, enq, drain, calls, last,
                   unsubscribe, listeners, fetching, fetched, received,
                   pendingSyncCount, effect, syncs, awaited>>

\* part_002:176-177: the read has resolved; set({pendingSyncCount: count}).
CountRead ==
    /\ counting # <<>>
    /\ pendingSyncCount' = Head(counting)
    /\ counting' = Tail(counting)
    /\ UNCHANGED <<queueVars, monitorVars, effect, syncs, awaited>>

\* part_002:180-181 with part_000:506-507: syncPendingOperations is invoked
\* and calls processQueue.  An invocation beyond MaxPasses is not followed.
SyncStarted(p) ==
    /\ ProcessQueue(p)
    /\ syncs' = [syncs EXCEPT ![p] = "draining"]

SyncPendingOperations ==
    /\ awaited' = FALSE
    /\ IF drain[MaxPasses].pc = "idle"
       THEN \E p \in 1..MaxPasses : SyncStarted(p)
       ELSE UNCHANGED <<queueVars, syncs>>

\* HomeScreen.tsx:71-76: the auto-sync effect runs.
SyncEffect ==
    /\ Mounted
    /\ effect # Deps
    /\ effect' = Deps
    /\ IF ~isOffline /\ pendingSyncCount > 0
       THEN SyncPendingOperations
       ELSE UNCHANGED <<queueVars, syncs, awaited>>
    /\ UNCHANGED <<monitorVars, pendingSyncCount, counting>>

\* HomeScreen.tsx:209-216: the user presses the pending-sync banner.
PressSync ==
    /\ Mounted
    /\ ~isOffline /\ pendingSyncCount > 0
    /\ SyncPendingOperations
    /\ UNCHANGED <<monitorVars, pendingSyncCount, effect, counting>>

\* part_002:183-187: processSyncQueue has returned; with a success the count
\* is read again.
SyncResumed(p) ==
    /\ syncs[p] = "draining"
    /\ drain[p].pc = "returned"
    /\ syncs' = [syncs EXCEPT ![p] = "done"]
    /\ IF drain[p].success > 0 THEN GetPendingCount ELSE UNCHANGED counting
    /\ UNCHANGED <<queueVars, monitorVars, pendingSyncCount, effect, awaited>>

\* What the queue's steps leave alone next to HomeScreen.
homeFrame == <<apiVars, cacheVars, sessionVars, listenVars, monitorVars, homeVars>>

\* The steps the user or the platform takes, when they please.
HomeStimuli ==
    \/ AppMount /\ UNCHANGED <<apiVars, cacheVars, sessionVars, listenVars>>
    \/ HomeMount /\ UNCHANGED <<apiVars, cacheVars, sessionVars, listenVars>>
    \/ Focus /\ UNCHANGED <<apiVars, cacheVars, sessionVars, listenVars>>
    \/ \E state \in {"true", "false"} :
          /\ NetInfoReport(state)
          /\ BecameReachable
          /\ UNCHANGED <<storage, isSyncing, clock, enq, drain, calls, last,
                         pendingSyncCount, effect, counting, syncs, apiVars, cacheVars, sessionVars, listenVars>>
    \/ \E n \in 1..MaxWrites :
          AddToQueue(n, "CREATE", "container", "x", Rename("A"), clock)
              /\ UNCHANGED homeFrame
    \/ PressSync /\ UNCHANGED <<apiVars, cacheVars, sessionVars, listenVars>>

\* The steps that follow by themselves: promises settling, effects running.
HomeSystem ==
    \/ \E settlement \in {"true", "false"} :
          /\ ProbeSettled(settlement)
          /\ BecameReachable
          /\ UNCHANGED <<storage, isSyncing, clock, enq, drain, calls, last,
                         pendingSyncCount, effect, counting, syncs, apiVars, cacheVars, sessionVars, listenVars>>
    \/ CountRead /\ UNCHANGED <<apiVars, cacheVars, sessionVars, listenVars>>
    \/ SyncEffect /\ UNCHANGED <<apiVars, cacheVars, sessionVars, listenVars>>
    \/ \E p \in CallIds : SyncResumed(p) /\ UNCHANGED <<apiVars, cacheVars, sessionVars, listenVars>>
    \/ \E n \in CallIds : AddToQueueSave(n) /\ UNCHANGED homeFrame
    \/ \E p \in CallIds, state \in {"true", "false"} :
          CheckConnection(p, state) /\ fetched' = state
              /\ UNCHANGED <<passFrame>>
    \/ \E p \in CallIds : LoadQueue(p) /\ UNCHANGED homeFrame
    \/ \E p \in CallIds, outcome \in {"true", "false"} :
          ExecutorSettled(p, outcome) /\ UNCHANGED homeFrame
    \/ \E p \in CallIds : RemoveFromQueue(p) /\ UNCHANGED homeFrame
    \/ \E p \in CallIds : SaveRetry(p) /\ UNCHANGED homeFrame

HomeNext == HomeStimuli \/ HomeSystem

HomeSpec == Init /\ [][HomeNext]_vars

\* Promises settle and effects run: the JavaScript event loop and React
\* leave no runnable continuation or pending effect waiting for ever.  What
\* the user or the platform does is not owed.
HomeFair == HomeSpec /\ WF_vars(HomeSystem)

(* =============================== logout =============================== *)
\* ApiService.logout (part_000:100-105) over what AsyncStorage holds for the
\* session, the Entity Cache and the queue.  The calls that fill the store
\* run one at a time and none is in progress while logout runs.

\* part_000:113-114  the keys of the session
TOKEN == "token"
USER == "user"

\* The keys the Entity Cache writes (part_001:4-10, STORAGE_KEYS).
CacheKeys == {CONTAINERS, CONTAINER_DETAILS, BORROWED_ITEMS, TEAMS, LAST_SYNC}

\* No call of logout is in progress.
SessionIdle == session.pc \in {"idle", "returned"}

\* No drain pass and no enqueue is in progress.
QueueIdle ==
    /\ \A p \in CallIds : drain[p].pc \in {"idle", "returned", "threw"}
    /\ \A n \in CallIds : enq[n].pc \in {"idle", "returned"}

\* part_000:112-115  saveAuthData, at the end of login and register
SaveAuthData ==
    /\ SessionIdle
    /\ {TOKEN, USER} \ keys # {}
    /\ keys' = keys \cup {TOKEN, USER}
    /\ UNCHANGED <<containers, details, requests, cache, session>>

\* part_001:158-167  setBorrowedItems
CacheSetBorrowedItems ==
    LET s == [Stored EXCEPT !.keys = @ \cup {BORROWED_ITEMS}]
    IN  /\ CacheReady
        /\ Commit(s)
        /\ cache' = CacheCall("setBorrowedItems", NoFault, s, NoId)

\* part_001:180-186  setTeams
CacheSetTeams ==
    LET s == [Stored EXCEPT !.keys = @ \cup {TEAMS}]
    IN  /\ CacheReady
        /\ Commit(s)
        /\ cache' = CacheCall("setTeams", NoFault, s, NoId)

\* part_000:101  logout is called: removeItem('token')
LogoutToken ==
    /\ SessionIdle
    /\ keys' = keys \ {TOKEN}
    /\ session' = [pc |-> "token", held |-> keys, queued |-> Len(storage),
                   hit |-> FALSE]
    /\ UNCHANGED <<queueVars, containers, details, requests, cache>>

\* part_000:102  removeItem('user')
LogoutUser ==
    /\ session.pc = "token"
    /\ keys' = keys \ {USER}
    /\ session' = [session EXCEPT !.pc = "user"]
    /\ UNCHANGED <<queueVars, containers, details, requests, cache>>

\* part_000:103  offlineStorage.clearCache()
LogoutClearCache(fault) ==
    LET s == ClearCacheIn(Stored, fault)
    IN  /\ session.pc = "user"
        /\ containers' = s.containers
        /\ details' = s.details
        /\ keys' = s.keys
        /\ session' = [session EXCEPT !.pc = "cache", !.hit = s.hit]
        /\ UNCHANGED <<queueVars, requests, cache>>

\* part_000:104  syncQueue.clearQueue(), and logout returns
LogoutClearQueue ==
    /\ session.pc = "cache"
    /\ ClearQueue
    /\ keys' = keys \ {SYNC_QUEUE_KEY}
    /\ session' = [session EXCEPT !.pc = "returned"]
    /\ UNCHANGED <<containers, details, requests, cache>>

\* What logout and the calls around it leave alone.
sessionFrame == <<api, sent, nextId, monitorVars, homeVars, listenVars>>

\* What a step of the queue leaves alone next to the session.
aroundQueue == <<apiVars, cacheVars, sessionVars, monitorVars, homeVars, listenVars>>

\* A call is made when no other is in progress.
SessionReady == SessionIdle /\ QueueIdle

SessionNext ==
    \/ SaveAuthData /\ QueueIdle /\ UNCHANGED <<queueVars, sessionFrame>>
    \/ \E value \in {<<Container(Known, "A", Absent)>>} :
          SessionReady /\ CacheSetContainers(value, NoFault)
              /\ UNCHANGED <<queueVars, sessionFrame, session>>
    \/ \E containerId \in {Known} :
          SessionReady /\ CacheSetContainerDetail(containerId, NoFault)
              /\ UNCHANGED <<queueVars, sessionFrame, session>>
    \/ SessionReady /\ CacheSetBorrowedItems
          /\ UNCHANGED <<queueVars, sessionFrame, session>>
    \/ SessionReady /\ CacheSetTeams /\ UNCHANGED <<queueVars, sessionFrame, session>>
    \/ \E n \in 1..MaxWrites :
          SessionReady /\ AddToQueue(n, "CREATE", "container", "x", Rename("A"), clock)
              /\ UNCHANGED aroundQueue
    \/ \E n \in CallIds :
          /\ AddToQueueSave(n)
          /\ keys' = keys \cup {SYNC_QUEUE_KEY}
          /\ UNCHANGED <<apiVars, cache, sessionVars, monitorVars, homeVars, listenVars>>
    \/ \E p \in 1..MaxPasses :
          SessionReady /\ ProcessQueue(p) /\ UNCHANGED aroundQueue
    \/ \E p \in CallIds, state \in {"true", "false"} :
          CheckConnection(p, state) /\ UNCHANGED aroundQueue
    \/ \E p \in CallIds : LoadQueue(p) /\ UNCHANGED aroundQueue
    \/ \E p \in CallIds, outcome \in {"true", "false"} :
          ExecutorSettled(p, outcome) /\ UNCHANGED aroundQueue
    \/ \E p \in CallIds : RemoveFromQueue(p) /\ UNCHANGED aroundQueue
    \/ \E p \in CallIds : SaveRetry(p) /\ UNCHANGED aroundQueue
    \/ QueueIdle /\ LogoutToken /\ UNCHANGED sessionFrame
    \/ LogoutUser /\ UNCHANGED sessionFrame
    \/ \E fault \in {NoFault, Fault("multiRemove", "cache")} :
          LogoutClearCache(fault) /\ UNCHANGED sessionFrame
    \/ LogoutClearQueue /\ UNCHANGED sessionFrame

SessionSpec == Init /\ [][SessionNext]_vars

\* logout next to a drain pass of the ApiService that is in flight: nothing
\* in logout waits for the pass or stops it, so its four steps fall anywhere
\* between the steps of the pass.  The writes and the start of the pass come
\* before logout is called, and no enqueue is in progress when it is; the
\* storage does not fail.
SignedIn == session.pc = "idle"

SignOutNext ==
    \/ \E n \in CallIds, response \in Responses :
          SignedIn /\ ApiCreateContainer(n, Rename("A"), response, 0)
              /\ UNCHANGED extraVars
    \/ ApiWriteQueued /\ UNCHANGED extraVars
    \/ \E p \in CallIds : SignedIn /\ ApiProcessSyncQueue(p) /\ UNCHANGED extraVars
    \/ \E state \in {"true", "false"} : SyncCheckConnection(state) /\ UNCHANGED extraVars
    \/ SyncLoadQueue /\ UNCHANGED extraVars
    \/ \E response \in Responses : Execute(response) /\ UNCHANGED extraVars
    \/ SyncRemoveFromQueue /\ UNCHANGED extraVars
    \/ SyncSaveRetry /\ UNCHANGED extraVars
    \/ api.pc # "queueing" /\ SignedIn /\ LogoutToken /\ UNCHANGED sessionFrame
    \/ LogoutUser /\ UNCHANGED sessionFrame
    \/ LogoutClearCache(NoFault) /\ UNCHANGED sessionFrame
    \/ LogoutClearQueue /\ UNCHANGED sessionFrame

SignOutSpec == Init /\ [][SignOutNext]_vars

(* ========================== pending-sync count ======================== *)
\* The store's pendingSyncCount next to the queue, the screen and the monitor
\* left aside: one thing at a time, so that the count is what the last read
\* found unless a pass has changed the queue since.  Both callers of
\* syncPendingOperations (HomeScreen.tsx:72-75 and 209-212) require a count
\* above zero.

\* Neither a read of the count nor a sync nor a call of the queue is under way.
Calm ==
    /\ counting = <<>>
    /\ \A p \in CallIds : syncs[p] # "draining"
    /\ QueueIdle

countFrame == <<apiVars, cacheVars, sessionVars, listenVars, monitorVars>>

BannerNext ==
    \/ \E n \in CallIds, r \in Requests :
          Calm /\ AddToQueue(n, r[1], r[2], "x", r[3], clock) /\ UNCHANGED homeFrame
    \/ \E n \in CallIds : AddToQueueSave(n) /\ UNCHANGED homeFrame
    \/ /\ Calm
       /\ GetPendingCount
       /\ UNCHANGED <<queueVars, countFrame, pendingSyncCount, effect, syncs, awaited>>
    \/ CountRead /\ UNCHANGED <<apiVars, cacheVars, sessionVars, listenVars>>
    \/ \E p \in CallIds :
          /\ Calm
          /\ pendingSyncCount > 0
          /\ SyncStarted(p)
          /\ UNCHANGED <<countFrame, pendingSyncCount, effect, counting, awaited>>
    \/ \E p \in CallIds, state \in {"true", "false"} :
          CheckConnection(p, state) /\ UNCHANGED homeFrame
    \/ \E p \in CallIds : LoadQueue(p) /\ UNCHANGED homeFrame
    \/ \E p \in CallIds, outcome \in {"true", "false"} :
          ExecutorSettled(p, outcome) /\ UNCHANGED homeFrame
    \/ \E p \in CallIds : RemoveFromQueue(p) /\ UNCHANGED homeFrame
    \/ \E p \in CallIds : SaveRetry(p) /\ UNCHANGED homeFrame
    \/ \E p \in CallIds :
          SyncResumed(p) /\ UNCHANGED <<apiVars, cacheVars, sessionVars, listenVars>>

BannerSpec == Init /\ [][BannerNext]_vars

(* ========================= listeners of the queue ===================== *)
\* SyncQueue.addListener / notifyListeners (syncQueue.ts:191-206) next to the
\* methods that call them.  Both read the pending count through
\* getPendingCount and call the listeners when the read has resolved; the
\* reads are served in the order they were issued.  Recipient 0 stands for
\* every listener subscribed when the count arrives.  A write and the
\* continuation behind its await are one step, so the read that follows a
\* write is issued in the step of the write.

NoticeBeforeWrite(to) == [count |-> Len(storage), to |-> to]

\* syncQueue.ts:116-119  getPendingCount(), issued at the end of the step
Notice(to) == [count |-> Len(storage'), to |-> to]

\* The reads a step may issue fit among those waiting.
Room == Len(notices) + 2 <= MaxNotices

\* syncQueue.ts:203-204  notifyListeners() is called.
NotifyQueueListeners ==
    /\ Room
    /\ notices' = Append(notices, Notice(0))
    /\ UNCHANGED <<subscribers, delivered>>

\* The states of a pass between taking the flag and its finally clause.
Running == {"loading", "executing", "removing", "dropping", "retrying"}

\* syncQueue.ts:177-180: the pass has left its try block in this step.
Finished(p) == drain[p].pc \in Running /\ drain'[p].pc = "returned"

\* syncQueue.ts:179  notifyListeners() in the finally clause
Finally(p) ==
    /\ Room
    /\ notices' = IF Finished(p) THEN Append(notices, Notice(0)) ELSE notices
    /\ UNCHANGED <<subscribers, delivered>>

\* syncQueue.ts:112 then 179: removeFromQueue notifies, then the finally
\* clause if that was the last operation.
RemovedThenFinally(p) ==
    /\ Room
    /\ notices' = IF Finished(p)
                  THEN Append(Append(notices, Notice(0)), Notice(0))
                  ELSE Append(notices, Notice(0))
    /\ UNCHANGED <<subscribers, delivered>>

\* syncQueue.ts:191-201  addListener(listener)
AddQueueListener(l) ==
    /\ l \notin subscribers
    /\ Room
    /\ UNCHANGED <<queueVars, delivered>>
    /\ subscribers' = subscribers \cup {l}
    /\ notices' = Append(notices, Notice(l))

\* syncQueue.ts:198-200  the function addListener returned is called.
RemoveQueueListener(l) ==
    /\ l \in subscribers
    /\ subscribers' = subscribers \ {l}
    /\ UNCHANGED <<queueVars, notices, delivered>>

\* syncQueue.ts:196 / 205: the oldest read has resolved and the listeners
\* are called with the count.
DeliverNotice ==
    LET notice == Head(notices)
        called == IF notice.to = 0 THEN subscribers ELSE {notice.to}
    IN  /\ notices # <<>>
        /\ notices' = Tail(notices)
        /\ delivered' = [l \in ListenerIds |->
                            IF l \in called THEN <<notice.count>> ELSE delivered[l]]
        /\ UNCHANGED <<queueVars, subscribers>>

\* What the queue and its listeners leave alone.
listenFrame == <<apiVars, cacheVars, sessionVars, monitorVars, homeVars>>

ListenNext ==
    \/ \E n \in CallIds, r \in {<<"CREATE", "container", Rename("A")>>,
                               <<"DELETE", "container", Null>>} :
          AddToQueue(n, r[1], r[2], "x", r[3], clock)
              /\ UNCHANGED <<listenVars, listenFrame>>
    \/ \E n \in CallIds :
          AddToQueueSave(n) /\ NotifyQueueListeners /\ UNCHANGED listenFrame
    \/ ClearQueue /\ NotifyQueueListeners /\ UNCHANGED listenFrame
    \/ \E p \in 1..MaxPasses :
          ProcessQueue(p) /\ UNCHANGED <<listenVars, listenFrame>>
    \/ \E p \in CallIds, state \in {"true", "false"} :
          CheckConnection(p, state) /\ UNCHANGED <<listenVars, listenFrame>>
    \/ \E p \in CallIds : LoadQueue(p) /\ Finally(p) /\ UNCHANGED listenFrame
    \/ \E p \in CallIds, outcome \in Outcomes :
          ExecutorSettled(p, outcome) /\ Finally(p) /\ UNCHANGED listenFrame
    \/ \E p \in CallIds :
          RemoveFromQueue(p) /\ RemovedThenFinally(p) /\ UNCHANGED listenFrame
    \/ \E p \in CallIds : SaveRetry(p) /\ Finally(p) /\ UNCHANGED listenFrame
    \/ \E l \in ListenerIds : AddQueueListener(l) /\ UNCHANGED listenFrame
    \/ \E l \in {1} : RemoveQueueListener(l) /\ UNCHANGED listenFrame
    \/ DeliverNotice /\ UNCHANGED listenFrame

ListenSpec == Init /\ [][ListenNext]_vars

(* =============================== replay =============================== *)
\* The drain pass of the ApiService (part_000:506-551) over a queue filled
\* through syncQueue.addToQueue with any pair of kinds its types allow
\* (syncQueue.ts:6-7, 31-36), the calls made one at a time.

\* The pairs of mutation kind and entity kind, with a payload, that are
\* queued: the one pair the executor has no branch for, and two it has.
Replayed ==
    {<<"CREATE", "item", Rename("A")>>,
     <<"UPDATE", "item", Rename("B")>>,
     <<"UPDATE", "container", Rename("B")>>}

\* What the queue's steps leave alone under the ApiService.
replayFrame == <<apiVars, extraVars>>

ReplayNext ==
    \/ \E n \in CallIds, r \in Replayed :
          /\ Ready /\ QueueIdle
          /\ AddToQueue(n, r[1], r[2], Known, r[3], clock)
          /\ UNCHANGED replayFrame
    \/ \E n \in CallIds : AddToQueueSave(n) /\ UNCHANGED replayFrame
    \/ \E p \in CallIds : QueueIdle /\ ApiProcessSyncQueue(p) /\ UNCHANGED extraVars
    \/ \E state \in {"true", "false"} : SyncCheckConnection(state) /\ UNCHANGED extraVars
    \/ SyncLoadQueue /\ UNCHANGED extraVars
    \/ \E response \in Responses : Execute(response) /\ UNCHANGED extraVars
    \/ SyncRemoveFromQueue /\ UNCHANGED extraVars
    \/ SyncSaveRetry /\ UNCHANGED extraVars

ReplaySpec == Init /\ [][ReplayNext]_vars

(* ============================= hierarchy ============================== *)
\* Containers created under a parent picked from the list on the screen,
\* which shows the containers of the Entity Cache, placeholders included;
\* the drain replays the payloads as they were queued.
Nested == {Rename("A")} \cup {Under(id) : id \in Targets}

NestNext ==
    \/ \E n \in CallIds, response \in Responses :
          \E data \in Nested :
             ApiCreateContainer(n, data, response, 0) /\ UNCHANGED extraVars
    \/ \E n \in CallIds, id \in Targets, response \in Responses :
          ApiUpdateContainer(n, id, Rename("B"), response, 0) /\ UNCHANGED extraVars
    \/ ApiWriteQueued /\ UNCHANGED extraVars
    \/ \E p \in CallIds : ApiProcessSyncQueue(p) /\ UNCHANGED extraVars
    \/ \E state \in {"true", "false"} : SyncCheckConnection(state) /\ UNCHANGED extraVars
    \/ SyncLoadQueue /\ UNCHANGED extraVars
    \/ \E response \in Responses : Execute(response) /\ UNCHANGED extraVars
    \/ SyncRemoveFromQueue /\ UNCHANGED extraVars
    \/ SyncSaveRetry /\ UNCHANGED extraVars

NestSpec == Init /\ [][NestNext]_vars

(* ============================== properties ============================ *)
\* The operations of `queue` for the pair (entity, entityId).
OpsFor(queue, entity, entityId) ==
    {i \in 1..Len(queue) : SameEntity(queue[i], entity, entityId)}

\* A processQueue invocation that has started and not yet returned.
InProgress(p) == drain[p].pc \notin {"idle", "returned"}

\* C1: in every reachable state the persisted queue holds at most one
\* operation for each (entity kind, entity identifier) pair.
AtMostOnePerEntity ==
    \A entity \in SyncEntityType, entityId \in EntityIds :
        Cardinality(OpsFor(storage, entity, entityId)) <= 1

\* C1 witness: both entities have a queued operation, and the container's
\* carries two fields, which only a coalescing enqueue produces.
CoalescedQueueReached ==
    /\ Len(storage) = 2
    /\ \E i \in 1..2 : /\ storage[i].data.kv["name"] # Absent
                       /\ storage[i].data.kv["color"] # Absent

\* C3 (as claimed): no operation is handed to the executor by two processQueue
\* invocations that overlap.
NoOperationHandedByOverlappingDrains ==
    \A p \in CallIds, q \in CallIds :
        (p # q /\ InProgress(p) /\ InProgress(q)) =>
            \A i \in 1..Len(drain[p].handed), j \in 1..Len(drain[q].handed) :
                drain[p].handed[i].id # drain[q].handed[j].id

\* C4: within one processQueue invocation the executor receives the
\* operations in ascending timestamp order: an operation with a smaller
\* timestamp is handed over before one with a larger timestamp.
ReplayInTimestampOrder ==
    \A p \in CallIds :
        \A i \in 1..Len(drain[p].handed), j \in 1..Len(drain[p].handed) :
            drain[p].handed[i].timestamp < drain[p].handed[j].timestamp => i < j

\* C4 witness: a pass has handed over two operations, the earlier-stamped one
\* first, which the persisted queue stores in the opposite order.
ReplayOrderAgainstStorageOrder ==
    \E p \in CallIds :
        /\ Len(drain[p].handed) = 2
        /\ Len(storage) = 2
        /\ drain[p].handed[1].timestamp < drain[p].handed[2].timestamp
        /\ storage[1].id = drain[p].handed[2].id
        /\ storage[2].id = drain[p].handed[1].id

(* ------ how an operation may leave, or change in, the persisted queue --- *)
\* The write intent of op - its entity, type and payload - is in `queue`.
IntentKept(queue, op) ==
    \E j \in 1..Len(queue) :
        /\ SameEntity(queue[j], op.entity, op.entityId)
        /\ queue[j].type = op.type
        /\ queue[j].data = op.data

\* This step is the save of an addToQueue invocation for the entity of op.
SupersededByEnqueue(op) ==
    \E n \in CallIds :
        /\ enq[n].pc = "loaded" /\ enq'[n].pc = "returned"
        /\ SameEntity(op, enq[n].operation.entity, enq[n].operation.entityId)

\* This step is clearQueue.
ClearedByLogout == storage' = <<>> /\ enq' = enq /\ drain' = drain

\* This step removes op after the executor succeeded on a snapshot of it that
\* carried its type and payload.
DeliveredByExecutor(op) ==
    \E p \in CallIds :
        /\ drain[p].pc = "removing" /\ drain'[p].pc # "removing"
        /\ drain[p].queue[drain[p].index].id = op.id
        /\ drain[p].queue[drain[p].index].type = op.type
        /\ drain[p].queue[drain[p].index].data = op.data

\* This step removes op because its retry counter reached the maximum.
DroppedAfterRetries(op) ==
    \E p \in CallIds :
        /\ drain[p].pc = "dropping" /\ drain'[p].pc # "dropping"
        /\ drain[p].queue[drain[p].index].id = op.id

\* C2 (as claimed): a write intent in the persisted queue leaves it, or is
\* overwritten in it, only by a succeeding executor call whose payload
\* included it, by its operation exhausting the retries, by a later enqueue
\* on the same entity, or by clearQueue.
NoIntentSilentlyLost ==
    [][\A i \in 1..Len(storage) :
          \/ IntentKept(storage', storage[i])
          \/ SupersededByEnqueue(storage[i])
          \/ ClearedByLogout
          \/ DeliveredByExecutor(storage[i])
          \/ DroppedAfterRetries(storage[i])]_vars

\* C5: no persisted operation carries a retry counter of MaxRetries or more;
\* each "not handled" result adds one to the counter of the operation in the
\* pass's snapshot; while the sum is below MaxRetries the operation, if still
\* queued, is persisted with the new counter and the pass counts nothing; when
\* the sum is MaxRetries, and only then, the operation is removed from the
\* queue and counted as failed.
RetryCounting ==
    [][/\ \A i \in 1..Len(storage') : storage'[i].retries < MaxRetries
       /\ \A p \in CallIds :
             LET d == drain[p]
                 operation == d.queue[d.index]
             IN  /\ (d.pc = "executing" /\ drain'[p].pc \in {"retrying", "dropping"}) =>
                       /\ drain'[p].queue[d.index].retries = operation.retries + 1
                       /\ drain'[p].pc = "dropping" <=>
                              operation.retries + 1 = MaxRetries
                 /\ (d.pc = "retrying" /\ drain'[p].pc # "retrying") =>
                       /\ (\E j \in 1..Len(d.current) : d.current[j].id = operation.id) =>
                             \E j \in 1..Len(storage') :
                                 /\ storage'[j].id = operation.id
                                 /\ storage'[j].retries = operation.retries
                       /\ drain'[p].failed = d.failed
                       /\ drain'[p].success = d.success
                 /\ (d.pc = "dropping" /\ drain'[p].pc # "dropping") =>
                       /\ \A j \in 1..Len(storage') : storage'[j].id # operation.id
                       /\ drain'[p].failed = d.failed + 1
                       /\ drain'[p].success = d.success]_vars

\* C5 witness: the executor has returned "not handled" for an operation that
\* is persisted with two retries; the pass is removing it.
ThirdFailureDrops ==
    \E p \in CallIds :
        /\ drain[p].pc = "dropping"
        /\ drain[p].queue[drain[p].index].retries = MaxRetries
        /\ \E j \in 1..Len(storage) :
              /\ storage[j].id = drain[p].queue[drain[p].index].id
              /\ storage[j].retries = MaxRetries - 1

(* ---- the step in which addToQueue invocation n coalesces and saves ---- *)
Saves(n) == enq[n].pc = "loaded" /\ enq'[n].pc = "returned"

\* The place, in the queue invocation n loaded, of the operation queued for
\* the entity of its own operation (0: none).
ExistingIndex(n) ==
    First(OpsFor(enq[n].queue, enq[n].operation.entity, enq[n].operation.entityId))

\* Invocation n meets a queued operation of type `existing` with an operation
\* of type `incoming`.
Meets(n, incoming, existing) ==
    /\ Saves(n)
    /\ enq[n].operation.type = incoming
    /\ ExistingIndex(n) >= 1
    /\ enq[n].queue[ExistingIndex(n)].type = existing

\* The queue saved holds exactly one operation for the entity of invocation n,
\* and that operation satisfies P.
SavedOne(n, P(_)) ==
    LET own == OpsFor(storage', enq[n].operation.entity, enq[n].operation.entityId)
    IN  /\ Cardinality(own) = 1
        /\ \A j \in own : P(storage'[j])

\* k is a field of payload d.
Has(d, k) == d.kv[k] # Absent

\* d is the shallow merge of payloads a and b, b winning.
IsMergeOf(d, a, b) ==
    /\ ~d.isNull
    /\ \A k \in Keys : d.kv[k] = IF Has(b, k) THEN b.kv[k] ELSE a.kv[k]

\* C6: a DELETE enqueued for an entity whose queued operation is a CREATE
\* removes that operation: the saved queue holds no operation for the entity,
\* and the operations of the other entities are those of the queue it loaded.
CreateThenDeleteCancels ==
    [][\A n \in CallIds :
          Meets(n, "DELETE", "CREATE") =>
              LET queue == enq[n].queue
                  e == enq[n].operation
              IN  /\ OpsFor(storage', e.entity, e.entityId) = {}
                  /\ Len(storage') = Len(queue) - 1
                  /\ \A i \in 1..Len(queue) :
                        i # ExistingIndex(n) => queue[i] \in Range(storage')]_vars

\* C6 witness: the latest enqueue was a DELETE that met a CREATE, and the
\* persisted queue holds an operation of the other entity only.
CreateCancelled ==
    /\ last = [incoming |-> "DELETE", existing |-> "CREATE"]
    /\ Len(storage) = 1
    /\ OpsFor(storage, "container", "x") = {}

\* C7: an UPDATE enqueued for an entity whose queued operation is a CREATE
\* leaves exactly one operation for the entity, a CREATE whose payload is the
\* CREATE payload shallow-merged with the UPDATE payload, incoming values
\* winning.
UpdateMergesIntoCreate ==
    [][\A n \in CallIds :
          Meets(n, "UPDATE", "CREATE") =>
              LET existing == enq[n].queue[ExistingIndex(n)]
                  Merged(op) == /\ op.type = "CREATE"
                                /\ IsMergeOf(op.data, existing.data,
                                             enq[n].operation.data)
              IN  SavedOne(n, Merged)]_vars

\* C7 witness: the latest enqueue was an UPDATE that met a CREATE, and the
\* queued CREATE carries the name of the UPDATE in place of its own.
CreateCarriesUpdate ==
    /\ last = [incoming |-> "UPDATE", existing |-> "CREATE"]
    /\ \E i \in 1..Len(storage) :
          storage[i].type = "CREATE" /\ storage[i].data.kv["name"] = "B"

\* C8: an UPDATE enqueued for an entity whose queued operation is an UPDATE
\* leaves exactly one operation for the entity, an UPDATE whose payload is the
\* shallow merge of both payloads, later values winning, and whose timestamp
\* is that of the later enqueue.
UpdateMergesIntoUpdate ==
    [][\A n \in CallIds :
          Meets(n, "UPDATE", "UPDATE") =>
              LET existing == enq[n].queue[ExistingIndex(n)]
                  Merged(op) == /\ op.type = "UPDATE"
                                /\ IsMergeOf(op.data, existing.data,
                                             enq[n].operation.data)
                                /\ op.timestamp = enq[n].operation.timestamp
              IN  SavedOne(n, Merged)]_vars

\* C8 witness: a rename followed later by a recolor (or the reverse) has left
\* one UPDATE carrying both changes and the later timestamp.
RenameAndRecolorMerged ==
    /\ last = [incoming |-> "UPDATE", existing |-> "UPDATE"]
    /\ \E i \in 1..Len(storage) :
          /\ storage[i].type = "UPDATE"
          /\ storage[i].data.kv["name"] = "B"
          /\ storage[i].data.kv["color"] = "red"
          /\ storage[i].timestamp >= 1

\* C9: a DELETE enqueued for an entity whose queued operation is an UPDATE
\* leaves exactly one operation for the entity, a DELETE that carries the
\* payload of the DELETE request and no field of the UPDATE.
DeleteReplacesUpdate ==
    [][\A n \in CallIds :
          Meets(n, "DELETE", "UPDATE") =>
              LET existing == enq[n].queue[ExistingIndex(n)]
                  Replaced(op) ==
                      /\ op.type = "DELETE"
                      /\ op.data = enq[n].operation.data
                      /\ \A k \in Keys : Has(existing.data, k) => ~Has(op.data, k)
              IN  SavedOne(n, Replaced)]_vars

\* C9 witness: the latest enqueue was a DELETE that met an UPDATE, and the
\* queue holds a DELETE without payload for an entity.
UpdateReplacedByDelete ==
    /\ last = [incoming |-> "DELETE", existing |-> "UPDATE"]
    /\ \E i \in 1..Len(storage) : storage[i].type = "DELETE" /\ storage[i].data = Null

\* C10 (as claimed): once the queued operation of an entity is a DELETE, any
\* further enqueue for the entity leaves exactly one operation for it, a
\* DELETE, and an incoming UPDATE alters neither its payload nor its timestamp.
QueuedDeleteIsTerminal ==
    [][\A n \in CallIds, incoming \in SyncOperationType :
          Meets(n, incoming, "DELETE") =>
              LET existing == enq[n].queue[ExistingIndex(n)]
                  Terminal(op) ==
                      /\ op.type = "DELETE"
                      /\ incoming = "UPDATE" =>
                            /\ op.data = existing.data
                            /\ op.timestamp = existing.timestamp
              IN  SavedOne(n, Terminal)]_vars
\* This step is the one in which processQueue invocation p learns the result
\* of its connectivity re-check.
Rechecks(p) == drain[p].pc = "checking" /\ drain'[p].pc # "checking"

\* C11: when the connectivity re-check of a processQueue invocation reports
\* unreachable, the invocation returns {success: 0, failed: 0} in that step,
\* without having handed any operation to the executor and without raising
\* the in-progress flag, and the persisted queue - operations, payloads and
\* retry counters - is what it was.
UnreachableLeavesQueueAlone ==
    [][\A p \in CallIds :
          (Rechecks(p) /\ ~isConnected') =>
              /\ drain[p].handed = <<>>
              /\ drain'[p].pc = "returned"
              /\ drain'[p].success = 0
              /\ drain'[p].failed = 0
              /\ storage' = storage
              /\ isSyncing' = isSyncing]_vars

\* C11 witness: the latest connectivity re-check reported unreachable, its
\* invocation has returned {0, 0}, and the queue still holds an operation
\* with the one retry an earlier pass had counted.
OfflinePassKeptRetryBudget ==
    /\ ~isConnected
    /\ \E p \in CallIds : /\ drain[p].pc = "returned"
                          /\ drain[p].success = 0 /\ drain[p].failed = 0
    /\ \E i \in 1..Len(storage) : storage[i].retries = 1

\* This step is the one in which the executor call of processQueue invocation
\* p ends by raising an error: the catch block of lines 172-175 runs, so the
\* loop neither removes the operation nor counts a retry.
ExecutorRaised(p) ==
    /\ drain[p].pc = "executing"
    /\ drain'[p] # drain[p]
    /\ drain'[p].pc \in {"executing", "returned"}

\* C12: when the executor raises an error for an operation, the pass counts
\* one more failure and no more successes, the persisted queue - the
\* operation and its retry counter included - is unchanged, and the pass
\* hands the next operation of its snapshot to the executor if there is one;
\* it returns only when the snapshot is used up.
ExecutorErrorDoesNotStopPass ==
    [][\A p \in CallIds :
          ExecutorRaised(p) =>
              LET d == drain[p]
              IN  /\ drain'[p].failed = d.failed + 1
                  /\ drain'[p].success = d.success
                  /\ storage' = storage
                  /\ IF d.index < Len(d.queue)
                     THEN /\ drain'[p].pc = "executing"
                          /\ drain'[p].index = d.index + 1
                          /\ drain'[p].handed =
                                 Append(d.handed, d.queue[d.index + 1])
                     ELSE drain'[p].pc = "returned"]_vars

\* C12 witness: a pass has counted one failure for its first operation, which
\* is still persisted with no retry counted, and the executor is running for
\* its second operation.
SecondOperationHandedAfterError ==
    \E p \in CallIds :
        /\ drain[p].pc = "executing"
        /\ drain[p].index = 2
        /\ drain[p].failed = 1
        /\ drain[p].handed[1] \in Range(storage)
        /\ drain[p].handed[1].retries = 0
(* ------------------ properties of the ApiService calls ---------------- *)
\* The latest call of the application was `call` and has returned.
HasReturned(call) == api.call = call /\ api.pc = "returned"

\* The latest call took the offline handling: the monitor said unreachable,
\* or the remote request failed with a network error.
WentOffline == api.path = "offline"

\* C13: when createContainer takes the offline handling it does not throw
\* and, once it has returned, the identifier of the entity it returned has
\* the temporary prefix, the cached collection contains that entity, and the
\* queue holds exactly one operation for that identifier, a CREATE.
TempContainerCachedAndQueued ==
    (api.call = "createContainer" /\ WentOffline) =>
        /\ api.pc \in {"queueing", "returned"}
        /\ api.pc = "returned" =>
              /\ StartsWithTemp(api.id)
              /\ TempContainer(api.id, api.data) \in Range(containers)
              /\ Cardinality(OpsFor(storage, "container", api.id)) = 1
              /\ \A i \in OpsFor(storage, "container", api.id) :
                    storage[i].type = "CREATE" /\ storage[i].data = api.data

\* C13 witness: createContainer has returned after its remote request failed
\* with a network error while the monitor said reachable; the collection
\* and the queue held another container before.
CreatedWhileUnreachable ==
    /\ HasReturned("createContainer")
    /\ WentOffline
    /\ isConnected
    /\ Len(containers) = 2
    /\ Len(storage) = 2

\* C14: when a pass removes a CREATE after its remote create succeeded, the
\* queue no longer holds the operation - it is empty if that was its only
\* operation - and the cached collection contains the entity the server
\* assigned and no entry with the temporary identifier.
CreateSwappedAfterDrain ==
    [][api.pc = "syncing" =>
          LET d == drain[api.slot]
              operation == d.queue[d.index]
          IN  (/\ d.pc = "removing"
               /\ drain'[api.slot].pc # "removing"
               /\ operation.type = "CREATE") =>
                  /\ IndexOfId(storage', operation.id) = 0
                  /\ Len(storage) = 1 => storage' = <<>>
                  /\ IndexOfContainer(containers', operation.entityId) = 0
                  /\ \E r \in sent :
                        /\ r.operation = operation.id
                        /\ r.response = "ok"
                        /\ ~StartsWithTemp(r.assigned)
                        /\ Created(r.assigned, operation.data)
                               \in Range(containers')]_vars

\* C14 witness: processSyncQueue has returned having replayed the CREATE of
\* a container created offline; the queue is empty and the collection holds
\* the server's entity only.
TemporaryEntityReplaced ==
    /\ HasReturned("processSyncQueue")
    /\ storage = <<>>
    /\ Len(containers) = 1
    /\ \E r \in sent : /\ r.type = "CREATE" /\ r.response = "ok"
                       /\ StartsWithTemp(r.entityId)
                       /\ containers[1].id = r.assigned
\* C15 (as claimed): once deleteContainer has returned for a container with
\* a temporary identifier, before any pass, the queue holds no operation
\* for that container.
PendingCreateCancelledByDelete ==
    (/\ HasReturned("deleteContainer")
     /\ StartsWithTemp(api.id)
     /\ \A p \in CallIds : drain[p].pc = "idle") =>
        OpsFor(storage, "container", api.id) = {}

\* The writes with offline handling, and the reads with offline support
\* that are modelled.
Writes ==
    {"createContainer", "updateContainer", "deleteContainer", "updateItem",
     "deleteItem"}
Reads == {"getContainers", "getContainer", "getItemsByContainer"}

\* The cached copies of item `id`, in whatever cached detail they are.
CachedItems(id) ==
    UNION {{d.items[i] : i \in {j \in 1..Len(d.items) : d.items[j].id = id}} :
              d \in details}

\* Every field that payload `data` carries has its value in record `entity`.
Applied(entity, data) ==
    \A k \in Keys : Has(data, k) => entity[k] = data.kv[k]

\* C16 (as claimed): when one of the five writes has taken the offline
\* handling and returned, the Entity Cache shows its effect - the entity
\* inserted, its fields updated, or the entity removed - and the queue holds
\* one operation for the entity.
OfflineWriteAppliedAndQueued ==
    (api.call \in Writes /\ WentOffline /\ api.pc = "returned") =>
        /\ Cardinality(OpsFor(storage,
                               IF api.call \in {"updateItem", "deleteItem"}
                               THEN "item" ELSE "container",
                               api.id)) = 1
        /\ CASE api.call = "createContainer" ->
                  TempContainer(api.id, api.data) \in Range(containers)
             [] api.call = "updateContainer" ->
                  /\ IndexOfContainer(containers, api.id) >= 1
                  /\ Applied(containers[IndexOfContainer(containers, api.id)],
                             api.data)
             [] api.call = "deleteContainer" ->
                  IndexOfContainer(containers, api.id) = 0
             [] api.call = "updateItem" ->
                  \A item \in CachedItems(api.id) : Applied(item, api.data)
             [] api.call = "deleteItem" ->
                  CachedItems(api.id) = {}

\* C17 (as claimed): none of the five writes throws when it takes the
\* offline handling.
OfflineWriteNeverThrows ==
    (api.call \in Writes /\ WentOffline) => api.pc # "threw"

\* This step is the executor running for the operation its pass handed it.
Replays ==
    /\ api.pc = "syncing"
    /\ drain[api.slot].pc = "executing"
    /\ drain'[api.slot] # drain[api.slot]

\* C18 (as claimed): a direct write that gets an error response throws and
\* leaves the queue and the Entity Cache as they were, and no write that got
\* an error response is sent again by a pass.
RejectedWriteNotQueuedNorResent ==
    [][/\ (/\ requests' = requests + 1
           /\ api'.call \in Writes
           /\ api'.path = "rejected") =>
              /\ api'.pc = "threw"
              /\ storage' = storage
              /\ containers' = containers
              /\ details' = details
       /\ Replays =>
              LET d == drain[api.slot]
              IN  \A r \in sent :
                      r.operation = d.queue[d.index].id => r.response # "rejected"]_vars

\* C19 (as claimed): a read with offline support whose request fails with a
\* network error returns what the Entity Cache has and does not throw.
ReadFallsBackToCache ==
    (api.call \in Reads /\ WentOffline) => api.pc = "returned"

\* This step is a deleteContainer call in which OfflineStorage.deleteContainer
\* runs (part_000:270, 280).
RemovesFromCollection ==
    /\ requests' = requests + 1
    /\ api'.call = "deleteContainer"
    /\ api'.path \in {"online", "offline"}

\* C20: when OfflineStorage.deleteContainer has removed container X, X is
\* not in the cached collection and has no cached detail, and the entries
\* and details of all the other containers are what they were.
DetailCascade ==
    [][RemovesFromCollection =>
          LET Other(c) == c.id # api'.id
          IN  /\ IndexOfContainer(containers', api'.id) = 0
              /\ ~HasDetail(details', api'.id)
              /\ containers' = SelectSeq(containers, Other)
              /\ details' = {d \in details : Other(d)}]_vars

\* C20 witness: deleteContainer has returned for a container whose detail
\* was cached; the detail of another container, and an entry of the
\* collection, are still there.
DetailRemovedOthersKept ==
    /\ HasReturned("deleteContainer")
    /\ api.cascade
    /\ details # {}
    /\ containers # <<>>

(* ----------------- properties of the Entity Cache calls ---------------- *)
\* This step is a call of an OfflineStorage method.
CacheCalled == requests' = requests + 1 /\ cache'.call # "none"

\* The methods that write.
CacheWrites ==
    {"setContainers", "updateContainer", "deleteContainer", "setContainerDetail",
     "clearCache"}

\* C21 (as claimed): no Entity Cache call raises; a collection read of a
\* never-written store, or one that meets a storage fault, returns the empty
\* list; a detail read then returns nothing; a search that meets a fault
\* returns what it has found, which is nothing; and a write that meets a
\* storage fault leaves what is stored as it was.
CacheFaultsDegradeToNoOp ==
    [][CacheCalled =>
          /\ cache'.pc = "returned"
          /\ (cache'.call = "getContainers" /\ (cache'.hit \/ CONTAINERS \notin keys)) =>
                 cache'.list = <<>>
          /\ (cache'.call = "getContainerDetail"
                 /\ (cache'.hit \/ CONTAINER_DETAILS \notin keys)) =>
                 cache'.detail = {}
          /\ (cache'.call = "searchItemsLocally" /\ cache'.hit) => cache'.found = {}
          /\ (cache'.call \in CacheWrites /\ cache'.hit) =>
                 /\ containers' = containers
                 /\ details' = details
                 /\ keys' = keys]_vars

(* --------------- properties of the Connectivity Monitor --------------- *)
\* C22 (as claimed): after the call made on subscribing, a subscribed
\* listener is called on transitions only: no two consecutive calls of a
\* listener deliver the same value.
OnlyTransitionsNotified ==
    \A l \in listeners : Len(received[l]) = 2 => received[l][1] # received[l][2]

\* No NetInfo.fetch() of the monitor is pending.
MonitorQuiescent == fetching = 0 /\ \A p \in CallIds : drain[p].pc # "checking"

\* C23 (as claimed): whenever the monitor is quiescent, the value each
\* subscribed listener was last called with is the monitor's current value.
ListenersHoldCurrentValue ==
    MonitorQuiescent =>
        \A l \in listeners :
            /\ received[l] # <<>>
            /\ received[l][Len(received[l])] = isConnected

\* This step is one in which a NetInfo.fetch() of the monitor settles.
Settles == fetching' = fetching - 1 \/ \E p \in CallIds : Rechecks(p)

\* C24 (as claimed): when a reachability probe fails or reports an unknown
\* state the monitor's value becomes false, and a processQueue invocation
\* whose re-check it was returns {success: 0, failed: 0}.
ProbeFailureMeansUnreachable ==
    [][(Settles /\ fetched' \in {"null", "rejected"}) =>
          /\ ~isConnected'
          /\ \A p \in CallIds :
                Rechecks(p) => drain'[p] = Returned(IdleDrain)]_vars

\* C25: whenever the monitor observes reachability going from unreachable to
\* reachable while the persisted queue holds an operation, processQueue is
\* eventually invoked, whatever the user does or does not do afterwards.
ReconnectLeadsToDrain == awaited ~> ~awaited

\* C26: no step of logout starts or advances a drain pass, and when logout
\* returns, none of its requests having failed, AsyncStorage holds no key of
\* the Entity Cache and no queue key: the cached collection and the detail
\* mapping are gone and the persisted queue is empty.
LogoutWipesWithoutDraining ==
    [][/\ session' # session => drain' = drain /\ QueueIdle
       /\ session.pc = "cache" /\ session'.pc = "returned" /\ ~session.hit
            => /\ keys' \cap (CacheKeys \cup {SYNC_QUEUE_KEY}) = {}
               /\ containers' = <<>>
               /\ details' = {}
               /\ storage' = <<>>]_vars

\* C26 witness: logout has returned after it found every key of the Entity
\* Cache and a non-empty queue stored.
LogoutWipedAFullStore ==
    /\ session.pc = "returned"
    /\ ~session.hit
    /\ CacheKeys \cup {SYNC_QUEUE_KEY, TOKEN, USER} \subseteq session.held
    /\ session.queued > 0
    /\ keys = {}
    /\ storage = <<>>

\* C27: once no call of the queue is in progress and every count read for
\* the listeners has been delivered, the count each subscribed listener was
\* called with last is the number of operations in the persisted queue.
ListenersHoldPendingCount ==
    QueueIdle /\ notices = <<>>
        => \A l \in subscribers : delivered[l] = <<Len(storage)>>

\* C27 witness: with everything at rest, two subscribed listeners hold the
\* count 1 of a queue whose operation a drain pass has tried and kept.
ListenersFollowedTheQueue ==
    /\ QueueIdle /\ notices = <<>>
    /\ subscribers = ListenerIds
    /\ Len(storage) = 1 /\ storage[1].retries = 1
    /\ \A l \in ListenerIds : delivered[l] = <<1>>

\* The two cases of each letter.
Cases == {{"a", "A"}, {"b", "B"}}

SameLetter(x, y) == \E c \in Cases : x \in c /\ y \in c

\* `query` occurs in `field` at some position, letter by letter, whatever
\* the case of either.
ContainsIgnoringCase(field, query) ==
    \E i \in 0..(Len(field) - Len(query)) :
        \A j \in 1..Len(query) : SameLetter(field[i + j], query[j])

\* The name, the description if there is one, and the tags of an item.
SearchedFields(item) ==
    {item.name} \cup {item.description[i] : i \in 1..Len(item.description)}
                \cup {item.aiTags[i] : i \in 1..Len(item.aiTags)}

\* C28: a local search whose read did not fail returns exactly the items of
\* the cached details with a name, description or tag that contains the
\* query ignoring case, and so no item of a container without a cached detail.
LocalSearchIsExact ==
    cache.call = "searchItemsLocally" /\ cache.pc = "returned" /\ ~cache.hit
        => /\ cache.found =
                 {item \in ItemsOf(details) :
                     \E field \in SearchedFields(item) :
                         ContainsIgnoringCase(field, cache.query)}
           /\ \A item \in cache.found : HasDetail(details, item.containerId)

\* C28 witness: the search for "Ba" has returned the one item that has it
\* in a tag, in another case, while the container of the item that has
\* "aB" in its description is listed in the cache without a cached detail.
LocalSearchSkippedUncached ==
    /\ cache.call = "searchItemsLocally" /\ cache.pc = "returned" /\ ~cache.hit
    /\ cache.query = <<"B", "a">>
    /\ cache.found = {Tent}
    /\ ~HasDetail(details, Known)
    /\ \E i \in 1..Len(containers) : containers[i].id = Known

\* C29: the write that follows a success of the executor takes exactly the
\* operation executed out of the persisted queue, which held it, and leaves
\* every other stored operation as it was; each success counted is one such
\* removal.
SuccessRemovesExactlyThatOperation ==
    [][\A p \in CallIds :
          drain[p].pc = "removing" /\ drain'[p] # drain[p]
              => LET id == drain[p].queue[drain[p].index].id
                 IN  /\ \E i \in 1..Len(storage) : storage[i].id = id
                     /\ storage' = WithoutId(storage, id)
                     /\ drain'[p].success = drain[p].success + 1]_vars

\* C30: the in-progress flag is never clear while a drain pass is executing
\* the operations of its snapshot, and never set when no pass is between
\* taking the flag and its finally clause.
FlagSetExactlyWhileDraining ==
    /\ \A p \in CallIds : drain[p].pc \in Running \ {"loading"} => isSyncing
    /\ isSyncing => \E p \in CallIds : drain[p].pc \in Running

\* C31: every write of the queue key takes effect on what is stored when it
\* is made, so that no write of another flow made since the writer's read
\* is overwritten: an enqueue stores the coalescing of its operation into
\* the stored queue, a removal stores the stored queue without the one
\* operation, and a retry write leaves every other stored operation alone.
InterleavedWritesBothTakeEffect ==
    [][/\ \A n \in CallIds :
             enq[n].pc = "loaded" /\ enq'[n].pc = "returned"
                 => storage' = Coalesce(storage, enq[n].operation)
       /\ \A p \in CallIds :
             drain[p].pc \in {"removing", "dropping"} /\ drain'[p] # drain[p]
                 => storage' = WithoutId(storage, drain[p].queue[drain[p].index].id)
       /\ \A p \in CallIds :
             drain[p].pc = "retrying" /\ drain'[p] # drain[p]
                 => /\ Len(storage') = Len(storage)
                    /\ \A i \in 1..Len(storage) :
                          storage[i].id # drain[p].queue[drain[p].index].id
                              => storage'[i] = storage[i]]_vars

\* The pairs of mutation kind and entity kind the claim lists as handled.
Handled ==
    {<<"CREATE", "container">>, <<"UPDATE", "container">>, <<"DELETE", "container">>,
     <<"UPDATE", "item">>, <<"DELETE", "item">>}

\* The pass of the ApiService is at the executor call, or at the removal
\* that follows the last failed attempt, for an operation of a pair that is
\* not handled.
AtUnhandled(pc) ==
    /\ api.pc = "syncing"
    /\ drain[api.slot].pc = pc
    /\ drain' # drain
    /\ LET operation == drain[api.slot].queue[drain[api.slot].index]
       IN  <<operation.type, operation.entity>> \notin Handled

\* C32: for an operation of any other pair the executor makes no remote
\* call, touches no cache and returns false, so the pass counts a failed
\* attempt on it; with the third attempt the operation is removed from the
\* persisted queue.
UnhandledFollowsRetryPath ==
    [][/\ AtUnhandled("executing")
            => LET d == drain[api.slot]
                   operation == d.queue[d.index]
               IN  /\ sent' = sent
                   /\ containers' = containers /\ details' = details
                   /\ drain'[api.slot].queue[d.index].retries = operation.retries + 1
                   /\ drain'[api.slot].pc =
                          IF operation.retries + 1 >= MaxRetries
                          THEN "dropping" ELSE "retrying"
       /\ AtUnhandled("dropping")
            => LET d == drain[api.slot]
                   operation == d.queue[d.index]
               IN  /\ operation.retries = MaxRetries
                   /\ \A i \in 1..Len(storage') : storage'[i].id # operation.id]_vars

\* C32 witness: an operation was queued and three passes have run on it
\* without one remote call; the third counted it failed and the queue is
\* empty.
UnhandledDroppedByThirdPass ==
    /\ sent = {}
    /\ storage = <<>>
    /\ \A p \in 1..2 : drain[p].pc = "returned" /\ drain[p].failed = 0
    /\ drain[3].pc = "returned" /\ drain[3].failed = 1 /\ drain[3].success = 0

\* C33: the retry write, made on a read of the queue that is still what is
\* stored, changes nothing but the retry counter of the stored operation -
\* its payload, kind and timestamp stay as an enqueue left them while the
\* executor call was in flight - and writes nothing when the operation is
\* no longer stored.
RetryWritesOnlyTheCounter ==
    [][\A p \in CallIds :
          drain[p].pc = "retrying" /\ drain'[p] # drain[p]
                                  /\ drain[p].current = storage
              => LET index == IndexOfId(storage, drain[p].queue[drain[p].index].id)
                 IN  IF index >= 1
                     THEN storage' = [storage EXCEPT
                                         ![index].retries = storage'[index].retries]
                     ELSE storage' = storage]_vars

\* C34: when the remote call the executor makes for an operation fails with
\* a connectivity failure, the operation's retry counter is not incremented
\* and the pass does not go on to drop the operation.
ConnectivityFailureKeepsBudget ==
    [][(/\ api.pc = "syncing"
        /\ drain[api.slot].pc = "executing"
        /\ \E request \in sent' \ sent : isNetworkError(request.response))
            => LET d == drain[api.slot]
               IN  /\ drain'[api.slot].pc # "dropping"
                   /\ drain'[api.slot].queue[d.index].retries
                          = d.queue[d.index].retries]_vars

\* C35 (as claimed): no remote call that a drain issues refers to a temporary
\* identifier: the request for a replayed UPDATE or DELETE is not addressed
\* to one, and the payload replayed with the request names none as parentId.
NoRemoteCallRefersToTemp ==
    [][\A r \in sent' \ sent :
          LET d == drain[api.slot]
              operation == d.queue[d.index]
          IN  /\ r.type # "CREATE" => ~StartsWithTemp(r.entityId)
              /\ ~RefersToTemp(operation.data)]_vars

\* C36 (as claimed): when logout has returned and the drain pass that was in
\* flight next to it has completed, the Entity Cache holds no entity and the
\* Mutation Queue holds no operation.
DrainCannotRepopulate ==
    (/\ session.pc = "returned"
     /\ api.call = "processSyncQueue"
     /\ api.pc = "returned")
        => /\ containers = <<>>
           /\ details = {}
           /\ storage = <<>>

\* C37 (as claimed): when syncPendingOperations returns - at once when the
\* pass counted no success, and when the read of the count it makes has
\* resolved otherwise - pendingSyncCount is the number of operations in the
\* persisted queue.
CountExactAfterSync ==
    [][\A p \in CallIds :
          /\ (syncs[p] = "draining" /\ syncs'[p] = "done" /\ drain[p].success = 0)
                => pendingSyncCount' = Len(storage')
          /\ (syncs[p] = "done" /\ drain[p].success > 0
                  /\ counting # <<>> /\ counting' = <<>>)
                => pendingSyncCount' = Len(storage')]_vars

\* C38 (as claimed): the identifier addToQueue returns - that of the operation
\* it built - is the identifier of the operation the queue holds for the
\* entity when the call has written, whenever it holds one, also when the
\* call coalesced into an operation already queued.
ReturnedIdIsStoredId ==
    [][\A n \in CallIds :
          (enq[n].pc = "loaded" /\ enq'[n].pc = "returned") =>
              LET operation == enq[n].operation
                  index == IndexOfEntity(storage', operation.entity,
                                         operation.entityId)
              IN  index >= 1 => storage'[index].id = operation.id]_vars

====
